---- MODULE Spec2Model ----
(***************************************************************************)
(* State-machine model of the event pipeline of yscp-line-bot:             *)
(*   EventQueueService   (services/eventQueueService.js, first class)      *)
(*   EventStorageService (services/eventStorageService.js)                 *)
(*   LineBotController.handleEventReceiver (controllers/lineBotController) *)
(* Times are milliseconds as returned by Date.now().  JavaScript runs one  *)
(* callback to completion: while a dispatcher activation executes          *)
(* synchronously (running) or a promise continuation is queued (a task in  *)
(* phase "admitted") no timer, request or I/O completion is served.        *)
(***************************************************************************)
EXTENDS Integers, Sequences, FiniteSets, Bags, TLC

\* ---------------------------------------------------------------- constants
maxConcurrent == 5
eventDeduplicationTTL == 60000
minSendInterval == 5000
PollInterval == 1000
WatchdogInterval == 15000
CleanupInterval == 60000
maxHistorySize == 300
eventTTL == 604800000
dedupeTTL == 60000
minPushInterval == 2000
batchSize == 3
DefaultPageSize == 10
DefaultToken == "your_unique_verification_token"

\* ------------------------------------------------------------------- bounds
BootTime == 100000      \* Date.now() when the services are constructed
MaxTicks == 16          \* clock steps explored by the queue specification
MaxEnq == 7             \* accepted enqueue calls explored
FlowTicks == 5          \* watchdog periods explored by the delivery specification
MaxEnqFlow == 3         \* accepted enqueue calls explored there
MaxReq == 2             \* webhook requests explored
MaxInFlight == 4        \* webhook events in processing at one time
WebTicks == 3           \* push intervals explored by the webhook specification
MaxCalls == 3           \* direct calls of the history store explored
LiveTicks == 1          \* clock steps measured by the liveness specification
MaxEnqLive == 7         \* accepted enqueue calls explored there
MaxEnqFault == 6        \* accepted enqueue calls explored by the fault specification
PriorityTicks == 2      \* send intervals explored by the priority specification
MaxEnqPriority == 3     \* accepted enqueue calls explored there
RenderTicks == 2        \* clock steps explored by the rendering specification
RosterTicks == 1        \* watchdog periods explored by the roster specification
MaxEnqRoster == 2       \* accepted enqueue calls explored there

OrderTicks == 6         \* clock steps explored by the ordering specification
MaxEnqOrder == 2        \* accepted enqueue calls explored there

StoreTicks == 2         \* clock steps explored by the backlog specification
MaxEnqStore == 6        \* accepted enqueue calls explored there

NoId == ""              \* an event without eventId (falsy in the source)
EventIds == {"e1", "e2"}
ImageUrls == {"u1", "u2"}
NoImage == "none"       \* null imageUrl
Users == {"A", "B", "P"}
Roles == {"admin", "target", "pending", "blocked"}

VARIABLES
    now,              \* Date.now()
    eventQueue,       \* normal lane
    priorityQueue,    \* priority lane
    isProcessing,
    processingCount,
    processedEvents,  \* Map eventId -> time of admission
    lastSendTime,
    running,          \* a startProcessing activation is executing its loop
    sleepers,         \* wake times of activations suspended in the 1 s poll
    tasks,            \* dispatched items whose processing has not settled
    watchdogAt,       \* next firing of the watchdog interval
    cleanupAt,        \* next firing of the dedup cleanup interval
    started,          \* the module-load setImmediate has run
    eventStorage,     \* EventStorageService.eventStorage
    history,          \* the history document {events, lastUpdated}
    roster,           \* user-management.json: user -> role
    ctlProcessed,     \* LineBotController.processedEvents
    lastPushTime,     \* LineBotController.lastPushTime
    eventToken,       \* config.server.eventToken
    wreqs,            \* webhook requests whose events are being processed
    wtasks,           \* events of webhook requests being processed
    nextReq,          \* serial number of the next webhook request
    calls,            \* number of direct calls of the history store
    nextSeq,          \* serial number of the next accepted item
    acceptedAt,       \* observation: time each eventId was last accepted
    ret               \* observation: outcome of the last completed call

vars == <<now, eventQueue, priorityQueue, isProcessing, processingCount,
          processedEvents, lastSendTime, running, sleepers, tasks,
          watchdogAt, cleanupAt, started, eventStorage, history, roster,
          ctlProcessed, lastPushTime, eventToken, wreqs, wtasks, nextReq,
          calls, nextSeq, acceptedAt, ret>>

queueVars == <<eventQueue, priorityQueue, isProcessing, processingCount,
               processedEvents, lastSendTime, running, sleepers, tasks,
               nextSeq, acceptedAt>>
storeVars == <<eventStorage, history>>
timerVars == <<watchdogAt, cleanupAt, started>>
webVars == <<ctlProcessed, lastPushTime, eventToken, wreqs, wtasks, nextReq, calls>>

\* ------------------------------------------------------------------ helpers
Min(a, b) == IF a <= b THEN a ELSE b

SeqMin(s) == IF s = <<>> THEN -1 ELSE s[1]

RemoveAt(s, i) == SubSeq(s, 1, i - 1) \o SubSeq(s, i + 1, Len(s))

MapSet(f, k, v) == [x \in DOMAIN f \cup {k} |-> IF x = k THEN v ELSE f[x]]

MapDel(f, ks) == [x \in DOMAIN f \ ks |-> f[x]]

\* ---------------------------------------------------------------- type info
\* HCPClient.getEventTypeConfig: the priority a type's config declares
\* ("absent": config without priority, "unknown": no config for the type)
TypePriority(ty) ==
    CASE ty = "tHigh" -> "high"
      [] ty = "tMedium" -> "medium"
      [] ty = "tLow" -> "low"
      [] ty = "tPlain" -> "absent"
      [] OTHER -> "unknown"

calculateEventPriority(ty) ==
    LET p == TypePriority(ty) IN
    IF p \notin {"absent", "unknown"}
    THEN (IF p = "medium" THEN "normal" ELSE p)
    ELSE "normal"

\* ------------------------------------------------------------- deduplicator
isDuplicateEventShortMut(pe, id, t) ==
    /\ id # NoId
    /\ id \in DOMAIN pe
    /\ pe[id] # 0
    /\ t - pe[id] < WatchdogInterval

isDuplicateEventMut(pe, id, t) ==
    /\ id # NoId
    /\ id \in DOMAIN pe
    /\ pe[id] # 0
    /\ t - pe[id] < minSendInterval

isDuplicateEvent(pe, id, t) ==
    /\ id # NoId
    /\ id \in DOMAIN pe
    /\ pe[id] # 0
    /\ t - pe[id] < eventDeduplicationTTL

\* processedEvents after a call of isDuplicateEvent
recordEventMut(pe, id, t) ==
    IF id = NoId THEN pe ELSE MapSet(pe, id, t)

recordEvent(pe, id, t) ==
    IF id = NoId \/ isDuplicateEvent(pe, id, t) THEN pe ELSE MapSet(pe, id, t)

cleanupProcessedEventsMut(pe, t) ==
    MapDel(pe, {id \in DOMAIN pe : t - pe[id] > minSendInterval})

cleanupProcessedEvents(pe, t) ==
    MapDel(pe, {id \in DOMAIN pe : t - pe[id] > eventDeduplicationTTL})

\* -------------------------------------------------------------- the lanes
hasEventsToProcessMut == priorityQueue # <<>>

hasEventsToProcess == eventQueue # <<>> \/ priorityQueue # <<>>

\* getNextEvent takes from the priority lane whenever it is non-empty
takePriorityMut == eventQueue = <<>>

takePriority == priorityQueue # <<>>

\* getNextEvent: the item returned
nextItem == IF takePriority THEN Head(priorityQueue) ELSE Head(eventQueue)

\* getNextEvent: the lane after Array.prototype.shift took its first item
shiftKeepMut(q) == q

shiftMut(q) == SubSeq(q, 1, Len(q) - 1)

shift(q) == Tail(q)

\* the dispatcher's test of the concurrency limit (line 181)
slotsFullMut == processingCount > maxConcurrent

slotsFull == processingCount >= maxConcurrent

\* the watchdog restarts the dispatcher (lines 41-52)
watchdogRestartsMut == hasEventsToProcess /\ ~isProcessing

watchdogRestarts ==
    hasEventsToProcess /\ (~isProcessing \/ (isProcessing /\ processingCount = 0))

\* ------------------------------------------------------------ event storage
\* getEvent: whether a stored event is returned, and the store after the call
\* (an expired entry is deleted by the lookup)
getEventFound(es, id, t) ==
    id \in DOMAIN es /\ ~(t - es[id].storedAt > eventTTL)

getEventStore(es, id, t) ==
    IF id \in DOMAIN es /\ t - es[id].storedAt > eventTTL
    THEN [x \in DOMAIN es \ {id} |-> es[x]] ELSE es

storeEventMut(es, id, t) == es

storeEvent(es, id, t) ==
    IF id = NoId THEN es
    ELSE MapSet(es, id, [storedAt |-> t, imageUrl |-> NoImage])

\* ------------------------------------------------------------ history store
EmptyHistory == [events |-> <<>>, lastUpdated |-> 0]

\* loadHistoryData: the parsed document, or an empty one when reading fails
loadHistoryDataMut(doc, readOk) == EmptyHistory

loadHistoryData(doc, readOk) == IF readOk THEN doc ELSE EmptyHistory

\* the record appendEventToHistory builds from a stored event
historyItem(id, stored, t) ==
    [eventId |-> id,
     storedAt |-> IF stored.storedAt # 0 THEN stored.storedAt ELSE t,
     imageUrl |-> stored.imageUrl,
     imageSources |-> <<>>]

appendEventToHistoryDropMut(doc, id, stored, t, readOk) == doc

appendEventToHistoryMut(doc, id, stored, t, readOk) ==
    IF id = NoId THEN doc
    ELSE LET h == loadHistoryData(doc, readOk)
             all == <<historyItem(id, stored, t)>> \o h.events
         IN [events |-> IF Len(all) > maxHistorySize + 1
                        THEN SubSeq(all, 1, maxHistorySize) ELSE all,
             lastUpdated |-> t]

appendEventToHistory(doc, id, stored, t, readOk) ==
    IF id = NoId THEN doc
    ELSE LET h == loadHistoryData(doc, readOk)
             all == <<historyItem(id, stored, t)>> \o h.events
         IN [events |-> IF Len(all) > maxHistorySize
                        THEN SubSeq(all, 1, maxHistorySize) ELSE all,
             lastUpdated |-> t]

updateEventImageHistoryMut(doc, id, url, t, readOk) ==
    IF id = NoId \/ url = NoImage THEN doc
    ELSE LET h == loadHistoryData(doc, readOk)
             changed == \E i \in 1..Len(h.events) : h.events[i].eventId = id
         IN IF changed
            THEN [events |-> [i \in 1..Len(h.events) |->
                                 [h.events[i] EXCEPT !.imageUrl = url]],
                  lastUpdated |-> t]
            ELSE doc

updateEventImageHistoryFirstMut(doc, id, url, t, readOk) ==
    IF id = NoId \/ url = NoImage THEN doc
    ELSE LET h == loadHistoryData(doc, readOk)
             changed == \E i \in 1..Len(h.events) : h.events[i].eventId = id
         IN IF changed
            THEN [events |-> [i \in 1..Len(h.events) |->
                                 IF h.events[i].eventId = id
                                 THEN [h.events[i] EXCEPT
                                         !.imageUrl = IF @ = NoImage THEN url ELSE NoImage]
                                 ELSE h.events[i]],
                  lastUpdated |-> t]
            ELSE doc

updateEventImageHistory(doc, id, url, t, readOk) ==
    IF id = NoId \/ url = NoImage THEN doc
    ELSE LET h == loadHistoryData(doc, readOk)
             changed == \E i \in 1..Len(h.events) : h.events[i].eventId = id
         IN IF changed
            THEN [events |-> [i \in 1..Len(h.events) |->
                                 IF h.events[i].eventId = id
                                 THEN [h.events[i] EXCEPT !.imageUrl = url]
                                 ELSE h.events[i]],
                  lastUpdated |-> t]
            ELSE doc

\* what a reading operation finds in place of the history file
FileKinds == {"ok", "missing", "empty", "invalid", "noEvents"}

\* loadHistoryData on such a file: a document without events array gets an
\* empty one and keeps its other fields
loadHistoryFileMut(doc, file) ==
    IF file \in {"ok", "invalid"} THEN loadHistoryData(doc, TRUE)
    ELSE [events |-> <<>>, lastUpdated |-> doc.lastUpdated]

loadHistoryFile(doc, file) ==
    CASE file = "ok" -> loadHistoryData(doc, TRUE)
      [] file = "noEvents" -> [events |-> <<>>, lastUpdated |-> doc.lastUpdated]
      [] OTHER -> loadHistoryData(doc, FALSE)

\* getEventFromHistory(eventId): the first record of the event, or none
getEventFromHistory(doc, id, file) ==
    LET h == loadHistoryFile(doc, file)
        found == {i \in 1..Len(h.events) : h.events[i].eventId = id}
    IN IF id = NoId \/ found = {} THEN <<>>
       ELSE <<h.events[CHOOSE i \in found : \A j \in found : i <= j]>>

\* getEventImageUri(eventId): the picture URI recorded for the event in the
\* in-memory store or, failing that, in the history; NoImage for null
getEventImageUri(es, doc, id, file, t) ==
    LET fromHistory == getEventFromHistory(doc, id, file)
    IN IF getEventFound(es, id, t) \/ fromHistory = <<>> THEN NoImage
       ELSE IF "picUri" \in DOMAIN fromHistory[1].imageSources
       THEN fromHistory[1].imageSources.picUri
       ELSE NoImage

\* getEventHistory({page, pageSize}) without filters: the page of the list,
\* the number of records and lastUpdated
getEventHistoryMut(doc, page, pageSize, file) ==
    LET h == loadHistoryFile(doc, file)
        validPage == IF page > 0 THEN page ELSE 1
        validPageSize == IF pageSize > 0 THEN pageSize ELSE DefaultPageSize
        startIndex == (validPage - 1) * validPageSize
        endIndex == startIndex + validPageSize
    IN [list |-> SubSeq(h.events, startIndex + 1, Min(endIndex, Len(h.events)) - 1),
        total |-> Len(h.events),
        lastUpdated |-> h.lastUpdated]

getEventHistory(doc, page, pageSize, file) ==
    LET h == loadHistoryFile(doc, file)
        validPage == IF page > 0 THEN page ELSE 1
        validPageSize == IF pageSize > 0 THEN pageSize ELSE DefaultPageSize
        startIndex == (validPage - 1) * validPageSize
        endIndex == startIndex + validPageSize
    IN [list |-> SubSeq(h.events, startIndex + 1, Min(endIndex, Len(h.events))),
        total |-> Len(h.events),
        lastUpdated |-> h.lastUpdated]

updateEventImageStore(es, id, url) ==
    IF id = NoId \/ url = NoImage \/ id \notin DOMAIN es THEN es
    ELSE [es EXCEPT ![id].imageUrl = url]

MapMerge(a, b) ==
    [k \in DOMAIN a \cup DOMAIN b |-> IF k \in DOMAIN b THEN b[k] ELSE a[k]]

updateEventImageSources(doc, id, srcs, t, readOk) ==
    IF id = NoId \/ DOMAIN srcs = {} THEN doc
    ELSE LET h == loadHistoryData(doc, readOk)
             changed == \E i \in 1..Len(h.events) : h.events[i].eventId = id
         IN IF changed
            THEN [events |-> [i \in 1..Len(h.events) |->
                                 IF h.events[i].eventId = id
                                 THEN [h.events[i] EXCEPT
                                         !.imageSources = MapMerge(@, srcs)]
                                 ELSE h.events[i]],
                  lastUpdated |-> t]
            ELSE doc

\* --------------------------------------------------------------- scheduling
Busy == running \/ \E tk \in BagToSet(tasks) : tk.phase = "admitted"

resolveTargetsMut(r) == {u \in DOMAIN r : r[u] # "blocked"}

\* targets of sendEventNotification: roster entries with role admin or target
resolveTargets(r) == {u \in DOMAIN r : r[u] \in {"admin", "target"}}

\* earliest pending timer
Deadlines ==
    {watchdogAt, cleanupAt}
      \cup {sleepers[i] : i \in 1..Len(sleepers)}
      \cup {tk.wake : tk \in {x \in BagToSet(tasks) : x.phase = "rlwait"}}

NextDeadline == CHOOSE d \in Deadlines : \A e \in Deadlines : d <= e

\* ---------------------------------------------------------------- initial
InitQueue ==
    /\ now = BootTime
    /\ eventQueue = <<>>
    /\ priorityQueue = <<>>
    /\ isProcessing = FALSE
    /\ processingCount = 0
    /\ processedEvents = <<>>
    /\ lastSendTime = 0
    /\ running = FALSE
    /\ sleepers = <<>>
    /\ tasks = EmptyBag
    /\ watchdogAt = BootTime + WatchdogInterval
    /\ cleanupAt = BootTime + CleanupInterval
    /\ started = FALSE
    /\ eventStorage = <<>>
    /\ nextSeq = 1
    /\ acceptedAt = [id \in EventIds |-> 0]
    /\ ret = [op |-> "none"]

RosterNone == [u \in Users |-> IF u = "B" THEN "blocked" ELSE "pending"]

RosterAB == [u \in Users |-> CASE u = "A" -> "admin" [] u = "B" -> "target" [] OTHER -> "pending"]

\* LineBotController constructor (lines 14-28); no request in progress
InitController ==
    /\ ctlProcessed = <<>>
    /\ lastPushTime = 0
    /\ wreqs = <<>>
    /\ wtasks = EmptyBag
    /\ nextReq = 1
    /\ calls = 0

Init ==
    /\ InitQueue
    /\ InitController
    /\ eventToken = "secret"
    /\ history = EmptyHistory
    /\ roster = RosterAB

\* ------------------------------------------------------- EventQueueService
\* startProcessing up to the first evaluation of the loop condition; the
\* callers below add it to their own effect when isProcessing is false
\* (line 172 returns at once otherwise).

\* enqueueHCPEvent(eventData): calculateEventPriority, then enqueueEvent
enqueueEvent(id, prio, maxEnq) ==
    /\ ~Busy
    /\ IF isDuplicateEvent(processedEvents, id, now)
       THEN /\ ret' = [op |-> "enqueue", eventId |-> id, result |-> FALSE]
            /\ processedEvents' = recordEvent(processedEvents, id, now)
            /\ UNCHANGED <<now, eventQueue, priorityQueue, isProcessing,
                           processingCount, lastSendTime, running, sleepers,
                           tasks, nextSeq, acceptedAt, storeVars, timerVars,
                           roster, webVars>>
       ELSE /\ nextSeq <= maxEnq
            /\ LET item == [seq |-> nextSeq, eventId |-> id, priority |-> prio]
                   pe == recordEvent(processedEvents, id, now)
               IN /\ IF prio = "high"
                     THEN /\ priorityQueue' = Append(priorityQueue, item)
                          /\ UNCHANGED eventQueue
                     ELSE /\ eventQueue' = Append(eventQueue, item)
                          /\ UNCHANGED priorityQueue
                  /\ IF ~isProcessing
                     THEN /\ isProcessing' = TRUE
                          /\ processedEvents' = cleanupProcessedEvents(pe, now)
                          /\ running' = TRUE
                     ELSE /\ processedEvents' = pe
                          /\ UNCHANGED <<isProcessing, running>>
            /\ nextSeq' = nextSeq + 1
            /\ acceptedAt' = IF id = NoId THEN acceptedAt
                             ELSE [acceptedAt EXCEPT ![id] = now]
            /\ ret' = [op |-> "enqueue", eventId |-> id, result |-> TRUE]
            /\ UNCHANGED <<now, processingCount, lastSendTime, sleepers, tasks,
                           storeVars, timerVars, roster, webVars>>

enqueueHCPEvent(id, ty, maxEnq) == enqueueEvent(id, calculateEventPriority(ty), maxEnq)

\* the task a dispatched item starts: processEventItem -> storeEvent ->
\* processEvent -> enforceRateLimit, run synchronously up to the first await
newTask(item) ==
    IF now - lastSendTime < minSendInterval
    THEN [eventId |-> item.eventId, phase |-> "rlwait",
          wake |-> now + (minSendInterval - (now - lastSendTime)), targets |-> {}]
    ELSE [eventId |-> item.eventId, phase |-> "admitted", wake |-> 0, targets |-> {}]

\* one evaluation of the while loop of startProcessing (lines 180-198) and,
\* when the lanes are empty, the finally block (line 202)
LoopStep ==
    /\ running
    /\ IF ~hasEventsToProcess
       THEN /\ isProcessing' = FALSE
            /\ running' = FALSE
            /\ UNCHANGED <<eventQueue, priorityQueue, processingCount, lastSendTime,
                           sleepers, tasks, eventStorage>>
       ELSE IF slotsFull
       THEN /\ sleepers' = Append(sleepers, now + PollInterval)
            /\ running' = FALSE
            /\ UNCHANGED <<eventQueue, priorityQueue, isProcessing, processingCount,
                           lastSendTime, tasks, eventStorage>>
       ELSE LET item == nextItem
                task == newTask(item)
            IN /\ IF takePriority
                  THEN /\ priorityQueue' = shift(priorityQueue)
                       /\ UNCHANGED eventQueue
                  ELSE /\ eventQueue' = shift(eventQueue)
                       /\ UNCHANGED priorityQueue
               /\ processingCount' = processingCount + 1
               /\ eventStorage' = storeEvent(eventStorage, item.eventId, now)
               /\ tasks' = tasks (+) SetToBag({task})
               /\ lastSendTime' = IF task.phase = "admitted" THEN now ELSE lastSendTime
               /\ UNCHANGED <<isProcessing, running, sleepers>>
    /\ UNCHANGED <<now, processedEvents, nextSeq, acceptedAt, history, timerVars,
                   roster, webVars, ret>>

\* the 1 s poll of line 182 expires: the activation resumes at the loop test
LoopWakeWhen(due) ==
    /\ ~Busy
    /\ sleepers # <<>>
    /\ due
    /\ sleepers' = Tail(sleepers)
    /\ running' = TRUE
    /\ UNCHANGED <<now, eventQueue, priorityQueue, isProcessing, processingCount,
                   processedEvents, lastSendTime, tasks, nextSeq, acceptedAt,
                   storeVars, timerVars, roster, webVars, ret>>

LoopWake == LoopWakeWhen(now >= sleepers[1])

\* a task settles: the finally of line 194 releases the slot
settleLeakMut(tk) ==
    /\ UNCHANGED processingCount
    /\ tasks' = tasks (-) SetToBag({tk})

settle(tk) ==
    /\ processingCount' = processingCount - 1
    /\ tasks' = tasks (-) SetToBag({tk})

\* a task reaches its next await
advance(tk, next) ==
    /\ tasks' = (tasks (-) SetToBag({tk})) (+) SetToBag({next})
    /\ UNCHANGED processingCount

\* sendEventNotification up to its first await (lines 243-257): resolve the
\* targets; without targets the call returns the no-targets result
sendStartMut(tk) ==
    /\ advance(tk, [tk EXCEPT !.phase = "render", !.wake = 0,
                               !.targets = resolveTargets(roster)])
    /\ UNCHANGED ret

sendStart(tk) ==
    LET targets == resolveTargets(roster) IN
    IF targets = {}
    THEN /\ settle(tk)
         /\ ret' = [op |-> "send", eventId |-> tk.eventId,
                    success |-> FALSE, error |-> "no targets",
                    successCount |-> 0, results |-> <<>>]
    ELSE /\ advance(tk, [tk EXCEPT !.phase = "render", !.wake = 0,
                                   !.targets = targets])
         /\ UNCHANGED ret

\* the continuation of a task that enforceRateLimit admitted without waiting
SendStart(tk) ==
    /\ ~running
    /\ tk \in BagToSet(tasks)
    /\ tk.phase = "admitted"
    /\ sendStart(tk)
    /\ UNCHANGED <<now, eventQueue, priorityQueue, isProcessing, processedEvents,
                   lastSendTime, running, sleepers, nextSeq, acceptedAt,
                   storeVars, timerVars, roster, webVars>>

\* the wait of enforceRateLimit (line 294) expires: line 297, then
\* sendEventNotification starts
RateLimitWakeWhen(tk, due) ==
    /\ ~Busy
    /\ tk \in BagToSet(tasks)
    /\ tk.phase = "rlwait"
    /\ due
    /\ lastSendTime' = now
    /\ sendStart(tk)
    /\ UNCHANGED <<now, eventQueue, priorityQueue, isProcessing, processedEvents,
                   running, sleepers, nextSeq, acceptedAt, storeVars, timerVars,
                   roster, webVars>>

RateLimitWake(tk) == RateLimitWakeWhen(tk, now >= tk.wake)

\* createEventFlexMessage resolves (line 257); img is the image URL the
\* renderer stored for the event (registerEventImage -> updateEventImage), or
\* NoImage; then pushMessage is called for every target (lines 260-268)
RenderDone(tk, img) ==
    /\ ~Busy
    /\ tk \in BagToSet(tasks)
    /\ tk.phase = "render"
    /\ eventStorage' = updateEventImageStore(eventStorage, tk.eventId, img)
    /\ history' = updateEventImageHistory(history, tk.eventId, img, now, TRUE)
    /\ advance(tk, [tk EXCEPT !.phase = "pushing"])
    /\ UNCHANGED <<now, eventQueue, priorityQueue, isProcessing,
                   processedEvents, lastSendTime, running, sleepers, nextSeq,
                   acceptedAt, timerVars, roster, webVars, ret>>

\* the catch of processEventItem (lines 218-220) and the finally of line 194
\* when processing of the item threw or rejected
failItemMut(tk) ==
    /\ tasks' = tasks (-) SetToBag({tk})
    /\ UNCHANGED processingCount
    /\ ret' = [op |-> "itemFailed", eventId |-> tk.eventId]

failItem(tk) ==
    /\ settle(tk)
    /\ ret' = [op |-> "itemFailed", eventId |-> tk.eventId]

\* createEventFlexMessage rejects, or the call of pushMessage throws (lines
\* 257-268): sendEventNotification rejects, processEvent rethrows (line 236)
RenderFails(tk) ==
    /\ ~Busy
    /\ tk \in BagToSet(tasks)
    /\ tk.phase = "render"
    /\ failItem(tk)
    /\ UNCHANGED <<now, eventQueue, priorityQueue, isProcessing,
                   processedEvents, lastSendTime, running, sleepers, nextSeq,
                   acceptedAt, storeVars, timerVars, roster, webVars>>

\* the gate of line 273: the event goes to history when a push succeeded
historyGateAllMut(results) == \A u \in DOMAIN results : results[u]

historyGateAnyMut(results) == TRUE

historyGate(results) == Cardinality({u \in DOMAIN results : results[u]}) > 0

\* the outcomes collected by Promise.all (lines 260-270): each push
\* resolves to its own entry, a rejected one through its catch
pushResultsMut(targets, ok) == [u \in targets \cap ok |-> TRUE]

pushResults(targets, ok) == [u \in targets |-> u \in ok]

\* every push has settled (line 270); ok is the set of targets whose push
\* succeeded.  Lines 271-282, then the slot is released.
PushesSettle(tk, ok) ==
    /\ ~Busy
    /\ tk \in BagToSet(tasks)
    /\ tk.phase = "pushing"
    /\ ok \subseteq tk.targets
    /\ LET id == tk.eventId
           results == pushResults(tk.targets, ok)
           found == getEventFound(eventStorage, id, now)
           stored == IF found THEN eventStorage[id]
                     ELSE [storedAt |-> now, imageUrl |-> NoImage]
       IN /\ IF historyGate(results)
             THEN /\ eventStorage' = getEventStore(eventStorage, id, now)
                  /\ history' = appendEventToHistory(history, id, stored, now, TRUE)
             ELSE UNCHANGED <<eventStorage, history>>
          /\ ret' = [op |-> "send", eventId |-> id, success |-> TRUE,
                     error |-> "",
                     successCount |-> Cardinality({u \in DOMAIN results : results[u]}),
                     results |-> results]
    /\ settle(tk)
    /\ UNCHANGED <<now, eventQueue, priorityQueue, isProcessing, processedEvents,
                   lastSendTime, running, sleepers, nextSeq, acceptedAt,
                   timerVars, roster, webVars>>

\* the watchdog interval of the constructor (lines 39-56)
WatchdogWhen(due, next) ==
    /\ ~Busy
    /\ due
    /\ watchdogAt' = next
    /\ IF watchdogRestarts
       THEN /\ isProcessing' = TRUE
            /\ processedEvents' = cleanupProcessedEvents(processedEvents, now)
            /\ running' = TRUE
       ELSE UNCHANGED <<isProcessing, processedEvents, running>>
    /\ UNCHANGED <<now, eventQueue, priorityQueue, processingCount, lastSendTime,
                   sleepers, tasks, nextSeq, acceptedAt, storeVars, cleanupAt,
                   started, roster, webVars, ret>>

Watchdog == WatchdogWhen(now >= watchdogAt, watchdogAt + WatchdogInterval)

\* the cleanup interval of startCleanupTimer (lines 320-325)
CleanupTimer ==
    /\ ~Busy
    /\ now >= cleanupAt
    /\ cleanupAt' = cleanupAt + CleanupInterval
    /\ processedEvents' = cleanupProcessedEvents(processedEvents, now)
    /\ UNCHANGED <<now, eventQueue, priorityQueue, isProcessing, processingCount,
                   lastSendTime, running, sleepers, tasks, nextSeq, acceptedAt,
                   storeVars, watchdogAt, started, roster, webVars, ret>>

\* the setImmediate of module load (lines 400-402): startProcessing
ModuleLoadStart ==
    /\ ~Busy
    /\ ~started
    /\ started' = TRUE
    /\ IF ~isProcessing
       THEN /\ isProcessing' = TRUE
            /\ processedEvents' = cleanupProcessedEvents(processedEvents, now)
            /\ running' = TRUE
       ELSE UNCHANGED <<isProcessing, processedEvents, running>>
    /\ UNCHANGED <<now, eventQueue, priorityQueue, processingCount, lastSendTime,
                   sleepers, tasks, nextSeq, acceptedAt, storeVars, watchdogAt,
                   cleanupAt, roster, webVars, ret>>

\* time passes, up to the next timer that is due
Tick(step, maxTime) ==
    /\ ~Busy
    /\ started
    /\ NextDeadline > now
    /\ now' = Min(now + step, NextDeadline)
    /\ now' <= maxTime
    /\ UNCHANGED <<queueVars, storeVars, timerVars, roster, webVars, ret>>

\* ------------------------------------------------------ LineBotController
\* LineBotController.isDuplicateEvent (lines 35-44): the verdict, and the
\* map after the call
isDuplicateWebEvent(pe, id, t) ==
    /\ id # NoId
    /\ id \in DOMAIN pe
    /\ pe[id] # 0
    /\ t - pe[id] < dedupeTTL

recordWebEvent(pe, id, t) ==
    IF id = NoId \/ isDuplicateWebEvent(pe, id, t) THEN pe ELSE MapSet(pe, id, t)

\* the events of a request that pass isDuplicateEvent, in order, and the
\* dedup map after the filter of lines 207-213
RECURSIVE uniqueEvents(_, _, _)
uniqueEvents(pe, evs, t) ==
    IF evs = <<>> THEN [pe |-> pe, events |-> <<>>]
    ELSE LET id == Head(evs)
             dup == isDuplicateWebEvent(pe, id, t)
             rest == uniqueEvents(recordWebEvent(pe, id, t), Tail(evs), t)
         IN [pe |-> rest.pe,
             events |-> IF dup THEN rest.events ELSE <<id>> \o rest.events]

batchTasksMut(r, batch, targets) ==
    LET one(i) == SetToBag({[req |-> r, eventId |-> batch[i], phase |-> "pushing",
                             wake |-> 0, targets |-> targets, pending |-> targets,
                             delivered |-> {}]})
        RECURSIVE upTo(_)
        upTo(i) == IF i = 0 THEN EmptyBag ELSE upTo(i - 1) (+) one(i)
    IN upTo(Len(batch))

\* processEvent of every event of a batch, each run up to its first await
\* (line 225)
batchTasks(r, batch, targets) ==
    LET one(i) == SetToBag({[req |-> r, eventId |-> batch[i], phase |-> "render",
                             wake |-> 0, targets |-> targets, pending |-> {},
                             delivered |-> {}]})
        RECURSIVE upTo(_)
        upTo(i) == IF i = 0 THEN EmptyBag ELSE upTo(i - 1) (+) one(i)
    IN upTo(Len(batch))

firstBatch(evs) == SubSeq(evs, 1, Min(batchSize, Len(evs)))

laterBatches(evs) == SubSeq(evs, batchSize + 1, Len(evs))

\* the test of line 157: a token is configured, is not the placeholder, and
\* the request's token differs from it
tokenMismatchMut(token) == FALSE

tokenMismatch(token) ==
    eventToken # "" /\ eventToken # DefaultToken /\ token # eventToken

\* the early returns of lines 141-176: the error response and nothing else
rejectRequestMut(status, error) ==
    /\ ret' = [op |-> "http", status |-> status, error |-> error]
    /\ ctlProcessed' = MapSet(ctlProcessed, "e1", now)
    /\ UNCHANGED <<wreqs, wtasks>>

rejectRequest(status, error) ==
    /\ ret' = [op |-> "http", status |-> status, error |-> error]
    /\ UNCHANGED <<ctlProcessed, wreqs, wtasks>>

\* params.events of a request is an array of events, here of their eventIds;
\* NullEvent stands for an element that is null, NonArray for a value with a
\* length that is not an array (a non-empty string)
NullEvent == "null"

NonArray == <<"string">>

\* the filter of lines 207-213 throws a TypeError: events has no filter
\* method, or ev.eventId is read from a null element
filterThrows(events) ==
    events = NonArray \/ \E i \in 1..Len(events) : events[i] = NullEvent

\* the elements the filter has passed to isDuplicateEvent when it throws
beforeThrow(events) ==
    IF events = NonArray THEN <<>>
    ELSE IF filterThrows(events)
    THEN SubSeq(events, 1, (CHOOSE i \in 1..Len(events) :
                               /\ events[i] = NullEvent
                               /\ \A j \in 1..(i - 1) : events[j] # NullEvent) - 1)
    ELSE events

\* what the handler does with the response object from line 185 on: the 200
\* of line 185 and, when the code behind it throws, the 500 that the catch
\* block tries to send on the finished response (lines 252-259)
afterResponse(events, targets) ==
    IF events # <<>> /\ targets # {} /\ filterThrows(events)
    THEN [op |-> "http", status |-> 200, error |-> "", attempted |-> 500]
    ELSE [op |-> "http", status |-> 200, error |-> ""]

\* handleEventReceiver (lines 136-262): validation, the response, and the
\* synchronous start of processWithConcurrency
handleEventReceiver(body, token, method, events) ==
    /\ nextReq <= MaxReq
    /\ BagCardinality(wtasks) + Len(events) <= MaxInFlight
    /\ nextReq' = nextReq + 1
    /\ IF body # "object"
       THEN rejectRequest(400, "Invalid request body")
       ELSE IF tokenMismatch(token)
       THEN rejectRequest(401, "Unauthorized")
       ELSE IF method # "OnEventNotify"
       THEN rejectRequest(400, "Invalid event format")
       ELSE /\ ret' = afterResponse(events, resolveTargets(roster))
            /\ LET targets == resolveTargets(roster)
                   u == uniqueEvents(ctlProcessed, beforeThrow(events), now)
               IN IF events = <<>> \/ targets = {}
                  THEN UNCHANGED <<ctlProcessed, wreqs, wtasks>>
                  ELSE /\ ctlProcessed' = u.pe
                       /\ IF u.events = <<>> \/ filterThrows(events)
                          THEN UNCHANGED <<wreqs, wtasks>>
                          ELSE /\ wreqs' = MapSet(wreqs, nextReq,
                                              [rest |-> laterBatches(u.events),
                                               active |-> Len(firstBatch(u.events)),
                                               targets |-> targets])
                               /\ wtasks' = wtasks (+)
                                     batchTasks(nextReq, firstBatch(u.events), targets)
    /\ UNCHANGED <<now, queueVars, storeVars, timerVars, roster, lastPushTime,
                   eventToken, calls>>

\* LineBotController.enforceRateLimit entered at time now (lines 62-70): the
\* task waits, or is admitted and calls pushMessage for every target
afterRender(tk) ==
    IF now - lastPushTime < minPushInterval
    THEN [tk EXCEPT !.phase = "rlwait",
                    !.wake = now + (minPushInterval - (now - lastPushTime))]
    ELSE [tk EXCEPT !.phase = "pushing", !.pending = tk.targets]

\* createEventFlexMessage resolves for an event of a request (line 225)
WebRenderDone(tk, img) ==
    /\ tk \in BagToSet(wtasks)
    /\ tk.phase = "render"
    /\ eventStorage' = updateEventImageStore(eventStorage, tk.eventId, img)
    /\ history' = updateEventImageHistory(history, tk.eventId, img, now, TRUE)
    /\ wtasks' = (wtasks (-) SetToBag({tk})) (+) SetToBag({afterRender(tk)})
    /\ lastPushTime' = IF afterRender(tk).phase = "pushing" THEN now ELSE lastPushTime
    /\ UNCHANGED <<now, queueVars, timerVars, roster, ctlProcessed, eventToken,
                   wreqs, nextReq, calls, ret>>

\* the wait of line 67 expires: line 69, then the pushes of line 233
WebRateLimitWake(tk) ==
    /\ tk \in BagToSet(wtasks)
    /\ tk.phase = "rlwait"
    /\ now >= tk.wake
    /\ lastPushTime' = now
    /\ wtasks' = (wtasks (-) SetToBag({tk}))
                   (+) SetToBag({[tk EXCEPT !.phase = "pushing", !.wake = 0,
                                            !.pending = tk.targets]})
    /\ UNCHANGED <<now, queueVars, storeVars, timerVars, roster, ctlProcessed,
                   eventToken, wreqs, nextReq, calls, ret>>

\* processEvent of tk returns: when it was the last of its batch the loop of
\* lines 243-246 starts the next batch, or the request is finished
finishEvent(tk) ==
    LET r == tk.req
        rq == wreqs[r]
    IN IF rq.active > 1
       THEN /\ wreqs' = [wreqs EXCEPT ![r].active = rq.active - 1]
            /\ wtasks' = wtasks (-) SetToBag({tk})
       ELSE IF rq.rest = <<>>
       THEN /\ wreqs' = MapDel(wreqs, {r})
            /\ wtasks' = wtasks (-) SetToBag({tk})
       ELSE /\ wreqs' = [wreqs EXCEPT ![r].rest = laterBatches(rq.rest),
                                      ![r].active = Len(firstBatch(rq.rest))]
            /\ wtasks' = (wtasks (-) SetToBag({tk}))
                           (+) batchTasks(r, firstBatch(rq.rest), rq.targets)

\* whether the Promise.all of line 233 is settled by the push to u settling
\* with outcome ok: rejected by the first failure, fulfilled by the last
\* success
pushesDecided(tk, u, ok) == ~ok \/ tk.pending = {u}

\* the push of tk's message to target u settles (line 233); when that decides
\* the Promise.all, line 234 or the catch of line 235 runs
WebPushSettle(tk, u, ok) ==
    /\ tk \in BagToSet(wtasks)
    /\ tk.phase = "pushing"
    /\ u \in tk.pending
    /\ LET delivered == IF ok THEN tk.delivered \cup {u} ELSE tk.delivered
           failed == IF ok THEN {} ELSE {u}
           fulfilled == delivered = tk.targets
       IN IF pushesDecided(tk, u, ok)
          THEN /\ history' = IF fulfilled
                             THEN appendEventToHistory(history, tk.eventId,
                                      [storedAt |-> 0, imageUrl |-> NoImage], now, TRUE)
                             ELSE history
               /\ ret' = [op |-> "webEvent", eventId |-> tk.eventId,
                          delivered |-> delivered, failed |-> failed,
                          unsettled |-> tk.pending \ {u},
                          appended |-> fulfilled /\ tk.eventId # NoId]
               /\ finishEvent(tk)
          ELSE /\ wtasks' = (wtasks (-) SetToBag({tk}))
                              (+) SetToBag({[tk EXCEPT !.pending = tk.pending \ {u},
                                                       !.delivered = delivered]})
               /\ UNCHANGED <<history, wreqs, ret>>
    /\ UNCHANGED <<now, queueVars, eventStorage, timerVars, roster, ctlProcessed,
                   lastPushTime, eventToken, nextReq, calls>>

WebDeadlines == {tk.wake : tk \in {x \in BagToSet(wtasks) : x.phase = "rlwait"}}

\* time passes for the controller, up to the next rate-limit wait that expires
WebTick(step, maxTime) ==
    /\ \A d \in WebDeadlines : d > now
    /\ now' = IF \E d \in WebDeadlines : d < now + step
              THEN CHOOSE d \in WebDeadlines : \A e \in WebDeadlines : d <= e
              ELSE now + step
    /\ now' <= maxTime
    /\ UNCHANGED <<queueVars, storeVars, timerVars, roster, webVars, ret>>

\* ------------------------------------------------------------ UserService
\* UserService.setRole(id, role) (lines 51-66): the entry gets the role
setRole(u, role) ==
    /\ ~Busy
    /\ roster[u] # role
    /\ roster' = [roster EXCEPT ![u] = role]
    /\ UNCHANGED <<now, queueVars, storeVars, timerVars, webVars, ret>>

\* ------------------------------------------------------------ LineBotService
\* senders of LINE events: the users of the roster and one without entry
Senders == Users \cup {"X"}

\* the user-management postbacks of handlePostback (lines 505-521)
PanelPostbacks == {"show_user_management", "show_pending_users", "manage_existing_users"}

RolePostbacks == {"approve", "reject", "remove_user"}

\* UserService.getRole(id): the role of the entry, or null
getRole(r, id) == IF id \in DOMAIN r THEN r[id] ELSE "none"

\* LineBotService.isAuthorizedRole(role) (lines 232-234)
isAuthorizedRole(role) == role = "admin" \/ role = "target"

\* handleEvent for a postback event of sender with data show_..., or
\* approve_<u>, reject_<u>, remove_user_<u>: the permission check of lines
\* 412-422, then handlePostback (lines 485-549) and the handler it selects
PostbackEvent(sender, data, u) ==
    /\ ~Busy
    /\ LET role == getRole(roster, sender)
           answer(action) == [op |-> "postback", sender |-> sender,
                              senderRole |-> role, data |-> data, user |-> u,
                              action |-> action]
       IN IF ~isAuthorizedRole(role)
          THEN /\ ret' = answer("permission_denied")
               /\ UNCHANGED roster
          ELSE IF data \in PanelPostbacks
          THEN /\ ret' = answer("panel")
               /\ UNCHANGED roster
          ELSE IF data = "approve"
          THEN /\ ret' = answer("role_changed")
               /\ roster' = [roster EXCEPT ![u] = "target"]
          ELSE IF data = "reject"
          THEN /\ ret' = answer("role_changed")
               /\ roster' = [roster EXCEPT ![u] = "blocked"]
          ELSE IF getRole(roster, u) = "admin"
          THEN /\ ret' = answer("permission_denied")
               /\ UNCHANGED roster
          ELSE /\ ret' = answer("role_changed")
               /\ roster' = [roster EXCEPT ![u] = "blocked"]
    /\ UNCHANGED <<now, queueVars, storeVars, timerVars, webVars>>

\* ------------------------------------------------- direct calls of the store
\* a history of n records as n deliveries left it, newest first
filledHistory(n) ==
    [events |-> [i \in 1..n |-> [eventId |-> "f", storedAt |-> BootTime - i,
                                 imageUrl |-> NoImage, imageSources |-> <<>>]],
     lastUpdated |-> IF n = 0 THEN 0 ELSE BootTime - 1]

\* EventStorageService.appendEventToHistory(eventData); readOk tells whether
\* fileSystem.readFile returns the content of the history file and
\* JSON.parse accepts it
AppendRead(id, img, readOk) ==
    /\ calls < MaxCalls
    /\ calls' = calls + 1
    /\ history' = appendEventToHistory(history, id,
                      [storedAt |-> 0, imageUrl |-> img], now, readOk)
    /\ ret' = [op |-> "append", eventId |-> id, call |-> calls']
    /\ UNCHANGED <<now, queueVars, eventStorage, timerVars, roster, ctlProcessed,
                   lastPushTime, eventToken, wreqs, wtasks, nextReq>>

AppendCall(id, img) == AppendRead(id, img, TRUE)

\* EventStorageService.updateEventImage(eventId, imageUrl)
UpdateImageCall(id, url) ==
    /\ calls < MaxCalls
    /\ calls' = calls + 1
    /\ eventStorage' = updateEventImageStore(eventStorage, id, url)
    /\ history' = updateEventImageHistory(history, id, url, now, TRUE)
    /\ ret' = [op |-> "updateImage", eventId |-> id, imageUrl |-> url,
               call |-> calls']
    /\ UNCHANGED <<now, queueVars, timerVars, roster, ctlProcessed,
                   lastPushTime, eventToken, wreqs, wtasks, nextReq>>

\* EventStorageService.updateEventImageSources(eventId, imageSources)
UpdateImageSourcesCall(id, srcs) ==
    /\ calls < MaxCalls
    /\ calls' = calls + 1
    /\ history' = updateEventImageSources(history, id, srcs, now, TRUE)
    /\ ret' = [op |-> "updateSources", eventId |-> id, call |-> calls']
    /\ UNCHANGED <<now, queueVars, eventStorage, timerVars, roster, ctlProcessed,
                   lastPushTime, eventToken, wreqs, wtasks, nextReq>>

\* ------------------------------------------------------ FlexMessageService
\* outcomes of HCPClient.getEventImage: image data, an error answer, no
\* answer, an exception; outcomes of storing the image: a URL, null, an
\* exception inside processCameraImage
FetchOutcomes == {"data", "error", "null", "throws"}

StoreOutcomes == {"stored", "failed", "throws"}

\* FileSystemService.saveBase64Image: the URL ends in the file name
\* camera_event_<type>_<Date.now()>_<Date.now()>.jpg, one name per instant
FileNames == <<"f0", "f1", "f2", "f3", "f4", "f5">>

saveBase64Image(t) == FileNames[((t - BootTime) \div PollInterval) + 1]

\* LineBotService.processCameraImage through processEventImage: the try of
\* lines 1109-1121 turns an exception into null
processEventImage(store, t) ==
    IF store = "stored" THEN saveBase64Image(t) ELSE NoImage

\* fetchEventImage(picUri, eventType, eventId): the URL, or null
fetchEventImageMut(fetch, store, t) ==
    IF fetch = "throws" THEN [threw |-> TRUE, url |-> NoImage]
    ELSE [threw |-> FALSE, url |-> saveBase64Image(t)]

fetchEventImage(fetch, store, t) ==
    IF fetch = "throws" THEN [threw |-> FALSE, url |-> NoImage]
    ELSE IF fetch # "data" THEN [threw |-> FALSE, url |-> NoImage]
    ELSE [threw |-> FALSE, url |-> processEventImage(store, t)]

\* createBaseEventFlexMessage: the message, whether getEventImage was
\* called, and whether the call threw
createBaseEventFlexMessage(hasUri, fetch, store, t) ==
    LET r == IF hasUri THEN fetchEventImage(fetch, store, t)
             ELSE [threw |-> FALSE, url |-> NoImage]
        imageUrl == IF r.threw THEN NoImage ELSE r.url
    IN [message |-> [type |-> "flex", image |-> imageUrl,
                     footer |-> imageUrl # NoImage],
        fetched |-> hasUri,
        threw |-> FALSE]

\* createEventFlexMessage(eventData) for an event with or without an image
\* URI; a stored image is registered for the event (registerEventImage ->
\* updateEventImage)
RenderCall(id, hasUri, fetch, store) ==
    /\ ~Busy
    /\ calls < MaxCalls
    /\ calls' = calls + 1
    /\ LET r == createBaseEventFlexMessage(hasUri, fetch, store, now)
           url == r.message.image
       IN /\ eventStorage' = updateEventImageStore(eventStorage, id, url)
          /\ history' = updateEventImageHistory(history, id, url, now, TRUE)
          /\ ret' = [op |-> "render", eventId |-> id, hasUri |-> hasUri,
                     fetch |-> fetch, store |-> store, message |-> r.message,
                     fetched |-> r.fetched, threw |-> r.threw, call |-> calls']
    /\ UNCHANGED <<now, queueVars, timerVars, roster, ctlProcessed,
                   lastPushTime, eventToken, wreqs, wtasks, nextReq>>

\* EventStorageService.storeEvent(eventData) called by processEventItem
StoreCall(id) ==
    /\ ~Busy
    /\ id \notin DOMAIN eventStorage
    /\ eventStorage' = storeEvent(eventStorage, id, now)
    /\ ret' = [op |-> "store", eventId |-> id]
    /\ UNCHANGED <<now, queueVars, history, timerVars, roster, webVars>>

\* EventStorageService.getEventHistory({page, pageSize})
GetHistoryCall(page, pageSize, file) ==
    /\ calls < MaxCalls
    /\ calls' = calls + 1
    /\ ret' = [op |-> "getHistory", page |-> page, pageSize |-> pageSize,
               file |-> file,
               result |-> getEventHistory(history, page, pageSize, file)]
    /\ UNCHANGED <<now, queueVars, storeVars, timerVars, roster, ctlProcessed,
                   lastPushTime, eventToken, wreqs, wtasks, nextReq>>

\* EventStorageService.getEventFromHistory(eventId)
GetFromHistoryCall(id, file) ==
    /\ calls < MaxCalls
    /\ calls' = calls + 1
    /\ ret' = [op |-> "getFromHistory", eventId |-> id, file |-> file,
               result |-> getEventFromHistory(history, id, file)]
    /\ UNCHANGED <<now, queueVars, storeVars, timerVars, roster, ctlProcessed,
                   lastPushTime, eventToken, wreqs, wtasks, nextReq>>

\* EventStorageService.getEventImageUri(eventId)
GetImageUriCall(id, file) ==
    /\ calls < MaxCalls
    /\ calls' = calls + 1
    /\ eventStorage' = getEventStore(eventStorage, id, now)
    /\ ret' = [op |-> "getImageUri", eventId |-> id, file |-> file,
               result |-> getEventImageUri(eventStorage, history, id, file, now)]
    /\ UNCHANGED <<now, queueVars, history, timerVars, roster, ctlProcessed,
                   lastPushTime, eventToken, wreqs, wtasks, nextReq>>

\* ------------------------------------------------------------ specification
Next ==
    \/ \E ty \in {"tHigh", "tMedium"} : enqueueHCPEvent(NoId, ty, MaxEnq)
    \/ ModuleLoadStart
    \/ LoopStep
    \/ LoopWake
    \/ Watchdog
    \/ \E tk \in BagToSet(tasks) : SendStart(tk)
    \/ \E tk \in BagToSet(tasks) : RateLimitWake(tk)
    \/ \E tk \in BagToSet(tasks) : RenderDone(tk, NoImage)
    \/ \E tk \in BagToSet(tasks), ok \in SUBSET Users : PushesSettle(tk, ok)
    \/ Tick(PollInterval, BootTime + MaxTicks * PollInterval)

Spec == Init /\ [][Next]_vars

\* The delivery specification: events with and without eventId, image
\* registration by the renderer, the dedup window and its cleanup timer.
\* With at most MaxEnqFlow items the dispatcher never reaches the concurrency
\* limit, so no activation sleeps in the poll.
NextFlow ==
    \/ \E id \in {"e1", NoId} : enqueueHCPEvent(id, "tPlain", MaxEnqFlow)
    \/ ModuleLoadStart
    \/ LoopStep
    \/ Watchdog
    \/ CleanupTimer
    \/ \E tk \in BagToSet(tasks) : SendStart(tk)
    \/ \E tk \in BagToSet(tasks) : RateLimitWake(tk)
    \/ \E tk \in BagToSet(tasks), img \in {NoImage, "u1"} : RenderDone(tk, img)
    \/ \E tk \in BagToSet(tasks), ok \in SUBSET Users : PushesSettle(tk, ok)
    \/ Tick(WatchdogInterval, BootTime + FlowTicks * WatchdogInterval)

SpecFlow == Init /\ [][NextFlow]_vars

\* The liveness specification.  The clock is measured up to LiveHorizon;
\* from then on every pending timer is taken to fire at some later time
\* without the time being measured.  Timers fire when due (weak fairness);
\* a continuation of a task runs whenever the event loop is idle, which
\* a running dispatcher interrupts only for the length of a turn (strong
\* fairness); nothing forces an enqueue, and at most MaxEnqLive arrive.
LiveHorizon == BootTime + LiveTicks * PollInterval

ClockStopped == now >= LiveHorizon

LiveLoopWake == LoopWakeWhen(now >= sleepers[1] \/ ClockStopped)

LiveRateLimitWake(tk) == RateLimitWakeWhen(tk, now >= tk.wake \/ ClockStopped)

LiveWatchdog ==
    WatchdogWhen(now >= watchdogAt \/ ClockStopped,
                 Min(watchdogAt + WatchdogInterval, LiveHorizon + WatchdogInterval))

LiveSendStart == \E tk \in BagToSet(tasks) : SendStart(tk)

LiveRateLimit == \E tk \in BagToSet(tasks) : LiveRateLimitWake(tk)

LiveRender == \E tk \in BagToSet(tasks) : RenderDone(tk, NoImage)

LivePushes == \E tk \in BagToSet(tasks) : PushesSettle(tk, tk.targets)

LiveTick == Tick(PollInterval, LiveHorizon)

NextLive ==
    \/ \E ty \in {"tHigh", "tMedium"} : enqueueHCPEvent(NoId, ty, MaxEnqLive)
    \/ ModuleLoadStart
    \/ LoopStep
    \/ LiveLoopWake
    \/ LiveWatchdog
    \/ LiveSendStart
    \/ LiveRateLimit
    \/ LiveRender
    \/ LivePushes
    \/ LiveTick

LiveSpec ==
    /\ Init
    /\ [][NextLive]_vars
    /\ WF_vars(ModuleLoadStart)
    /\ WF_vars(LoopStep)
    /\ WF_vars(LiveLoopWake)
    /\ WF_vars(LiveWatchdog)
    /\ WF_vars(LiveTick)
    /\ SF_vars(LiveSendStart)
    /\ SF_vars(LiveRateLimit)
    /\ SF_vars(LiveRender)
    /\ SF_vars(LivePushes)

\* The fault specification: the liveness specification with items whose
\* processing throws; a rendering ends one way or the other.
LiveRenderEnds ==
    \E tk \in BagToSet(tasks) : RenderDone(tk, NoImage) \/ RenderFails(tk)

NextFault ==
    \/ \E ty \in {"tHigh", "tMedium"} : enqueueHCPEvent(NoId, ty, MaxEnqFault)
    \/ ModuleLoadStart
    \/ LoopStep
    \/ LiveLoopWake
    \/ LiveWatchdog
    \/ LiveSendStart
    \/ LiveRateLimit
    \/ LiveRenderEnds
    \/ LivePushes
    \/ LiveTick

FaultSpec ==
    /\ Init
    /\ [][NextFault]_vars
    /\ WF_vars(ModuleLoadStart)
    /\ WF_vars(LoopStep)
    /\ WF_vars(LiveLoopWake)
    /\ WF_vars(LiveWatchdog)
    /\ WF_vars(LiveTick)
    /\ SF_vars(LiveSendStart)
    /\ SF_vars(LiveRateLimit)
    /\ SF_vars(LiveRenderEnds)
    /\ SF_vars(LivePushes)

\* The roster specification: both delivery paths while roles are changed;
\* the roster starts with or without an entry of role admin or target.
InitRoster ==
    /\ InitQueue
    /\ InitController
    /\ eventToken = "secret"
    /\ history = EmptyHistory
    /\ roster \in {RosterAB, RosterNone}

NextRoster ==
    \/ \E id \in {"e1", NoId} : enqueueHCPEvent(id, "tPlain", MaxEnqRoster)
    \/ \E role \in {"target", "blocked"} : setRole("B", role)
    \/ ModuleLoadStart
    \/ LoopStep
    \/ \E tk \in BagToSet(tasks) : SendStart(tk)
    \/ \E tk \in BagToSet(tasks) : RateLimitWake(tk)
    \/ \E tk \in BagToSet(tasks) : RenderDone(tk, NoImage)
    \/ \E tk \in BagToSet(tasks) : \E ok \in {{}, tk.targets} : PushesSettle(tk, ok)
    \/ nextReq = 1 /\ handleEventReceiver("object", "secret", "OnEventNotify", <<"e2">>)
    \/ \E tk \in BagToSet(wtasks) : WebRenderDone(tk, NoImage)
    \/ \E tk \in BagToSet(wtasks), u \in Users, ok \in BOOLEAN : WebPushSettle(tk, u, ok)
    \/ Tick(WatchdogInterval, BootTime + RosterTicks * WatchdogInterval)

SpecRoster == InitRoster /\ [][NextRoster]_vars

\* The priority specification: events of every kind of type configuration
\* (priority high, medium, another value, no priority, no configuration)
\* are classified, queued and dispatched.
EventTypes == {"tHigh", "tMedium", "tLow", "tPlain", "tNone"}

NextPriority ==
    \/ \E ty \in EventTypes : enqueueHCPEvent(NoId, ty, MaxEnqPriority)
    \/ ModuleLoadStart
    \/ LoopStep
    \/ \E tk \in BagToSet(tasks) : SendStart(tk)
    \/ \E tk \in BagToSet(tasks) : RateLimitWake(tk)
    \/ \E tk \in BagToSet(tasks) : RenderDone(tk, NoImage)
    \/ \E tk \in BagToSet(tasks) : PushesSettle(tk, tk.targets)
    \/ Tick(minSendInterval, BootTime + PriorityTicks * minSendInterval)

SpecPriority == Init /\ [][NextPriority]_vars

\* The webhook specification: requests to POST /hcp-event-receiver processed
\* by LineBotController.
EventLists == {<<>>, <<"e1">>, <<"e1", "e1">>, <<NoId, NoId, NoId, "e1">>}

\* token headers of a request: the configured secret, another value, none
Tokens == {"secret", "wrong", ""}

InitWebhook ==
    /\ InitQueue
    /\ InitController
    /\ eventToken \in {"secret", DefaultToken}
    /\ history = EmptyHistory
    /\ roster \in {RosterAB, RosterNone}

NextWebhook ==
    \/ \E body \in {"object", "missing"}, token \in Tokens,
          method \in {"OnEventNotify", "other"}, events \in EventLists :
          handleEventReceiver(body, token, method, events)
    \/ \E tk \in BagToSet(wtasks) : WebRenderDone(tk, NoImage)
    \/ \E tk \in BagToSet(wtasks) : WebRateLimitWake(tk)
    \/ \E tk \in BagToSet(wtasks), u \in Users, ok \in BOOLEAN : WebPushSettle(tk, u, ok)
    \/ WebTick(minPushInterval, BootTime + WebTicks * minPushInterval)

SpecWebhook == InitWebhook /\ [][NextWebhook]_vars

\* The history specification: the store's operations called directly on a
\* history that is empty or one record short of maxHistorySize.
InitHistory ==
    /\ InitQueue
    /\ InitController
    /\ eventToken = "secret"
    /\ history \in {filledHistory(0), filledHistory(maxHistorySize - 1)}
    /\ roster = RosterAB

NextHistory ==
    \/ \E id \in EventIds \cup {NoId}, img \in {NoImage, "u1"} : AppendCall(id, img)
    \/ \E id \in EventIds \cup {"f"}, url \in ImageUrls \cup {NoImage} :
          UpdateImageCall(id, url)
    \/ \E id \in EventIds \cup {"f"}, srcs \in {<<>>, [picUri |-> "p1"]} :
          UpdateImageSourcesCall(id, srcs)

SpecHistory == InitHistory /\ [][NextHistory]_vars

\* The reading specification: appends and image updates on a history that
\* starts empty or one record short of maxHistorySize, and the reading
\* operations, with a history file that can be read and with one that cannot
\* (missing, empty or not valid JSON).
InitReads == InitHistory

NextReads ==
    \/ \E id \in EventIds \cup {"e3"}, img \in {NoImage, "u1"} : AppendCall(id, img)
    \/ \E id \in EventIds : UpdateImageSourcesCall(id, [picUri |-> "p1"])
    \/ \E page \in {0, 1, 2}, pageSize \in 0..MaxCalls, file \in FileKinds :
          GetHistoryCall(page, pageSize, file)
    \/ \E id \in EventIds \cup {NoId}, file \in FileKinds : GetFromHistoryCall(id, file)
    \/ \E id \in EventIds \cup {NoId}, file \in FileKinds : GetImageUriCall(id, file)

SpecReads == InitReads /\ [][NextReads]_vars

\* The postback specification: user-management postbacks sent by every
\* kind of sender.
NextPostback ==
    \E sender \in Senders, data \in PanelPostbacks \cup RolePostbacks, u \in Users :
        PostbackEvent(sender, data, u)

SpecPostback == Init /\ [][NextPostback]_vars

\* The rendering specification: events are stored and rendered, once or
\* repeatedly, with every outcome of the image fetch and of the image store,
\* while time passes between the calls.
NextRender ==
    \/ \E id \in {"e1", NoId} : StoreCall(id)
    \/ \E id \in {"e1", NoId}, hasUri \in BOOLEAN, fetch \in FetchOutcomes,
          store \in StoreOutcomes : RenderCall(id, hasUri, fetch, store)
    \/ ModuleLoadStart
    \/ LoopStep
    \/ Tick(PollInterval, BootTime + RenderTicks * PollInterval)

SpecRender == Init /\ [][NextRender]_vars

\* The ordering specification: two events with different eventIds of the
\* normal class, accepted one after the other and in flight together; the
\* explored time ends before the first watchdog tick.
NextOrder ==
    \/ \E id \in EventIds : enqueueHCPEvent(id, "tPlain", MaxEnqOrder)
    \/ ModuleLoadStart
    \/ LoopStep
    \/ \E tk \in BagToSet(tasks) : SendStart(tk)
    \/ \E tk \in BagToSet(tasks) : RateLimitWake(tk)
    \/ \E tk \in BagToSet(tasks), img \in {NoImage, "u1"} : RenderDone(tk, img)
    \/ \E tk \in BagToSet(tasks) : PushesSettle(tk, tk.targets)
    \/ Tick(PollInterval, BootTime + OrderTicks * PollInterval)

SpecOrder == Init /\ [][NextOrder]_vars

\* The hang specification: the liveness specification without the
\* assumption that pushes settle.  The image fetch of a rendering ends
\* within the 10 s timeout of HCPClient.request and the rendering resolves
\* (fairness of LiveRender); line.Client is constructed without a timeout and
\* sendEventNotification awaits the pushes without one, so a push that never
\* responds leaves its task in the pushing phase (no fairness of LivePushes).
SpecHang ==
    /\ Init
    /\ [][NextLive]_vars
    /\ WF_vars(ModuleLoadStart)
    /\ WF_vars(LoopStep)
    /\ WF_vars(LiveLoopWake)
    /\ WF_vars(LiveWatchdog)
    /\ WF_vars(LiveTick)
    /\ SF_vars(LiveSendStart)
    /\ SF_vars(LiveRateLimit)
    /\ SF_vars(LiveRender)

\* The backlog specification: events with and without eventId, more of
\* them than concurrency slots, so that an item waits in its lane while the
\* dispatcher sleeps in the poll.  The explored time ends before a
\* rate-limit wait or the watchdog period can expire.
NextStore ==
    \/ \E id \in {"e1", NoId} : enqueueHCPEvent(id, "tPlain", MaxEnqStore)
    \/ ModuleLoadStart
    \/ LoopStep
    \/ LoopWake
    \/ \E tk \in BagToSet(tasks) : SendStart(tk)
    \/ \E tk \in BagToSet(tasks) : RenderDone(tk, NoImage)
    \/ \E tk \in BagToSet(tasks) : PushesSettle(tk, tk.targets)
    \/ Tick(PollInterval, BootTime + StoreTicks * PollInterval)

SpecStore == Init /\ [][NextStore]_vars

\* The malformed-request specification: authorized requests whose
\* params.events is an array of events, an array with a null element, or a
\* string.
EventValues ==
    {<<>>, <<"e1">>, <<NoId, "e1">>, <<NullEvent>>, <<"e1", NullEvent>>, NonArray}

NextMalformed ==
    \/ \E events \in EventValues :
          handleEventReceiver("object", "secret", "OnEventNotify", events)
    \/ \E tk \in BagToSet(wtasks) : WebRenderDone(tk, NoImage)
    \/ \E tk \in BagToSet(wtasks) : WebRateLimitWake(tk)
    \/ \E tk \in BagToSet(wtasks), u \in Users, ok \in BOOLEAN : WebPushSettle(tk, u, ok)
    \/ WebTick(minPushInterval, BootTime + WebTicks * minPushInterval)

SpecMalformed == InitWebhook /\ [][NextMalformed]_vars

\* The append specification: appendEventToHistory called on a history that
\* is empty or one record short of maxHistorySize, while a read of the
\* history file can fail (readFile returns null, or JSON.parse throws).
NextAppend ==
    \E id \in EventIds \cup {"e3", NoId}, img \in {NoImage, "u1"}, readOk \in BOOLEAN :
        AppendRead(id, img, readOk)

SpecAppend == InitHistory /\ [][NextAppend]_vars

\* ------------------------------------------------------------ observations
NumPhase(ph) ==
    LET S == {tk \in BagToSet(tasks) : tk.phase = ph}
    IN BagCardinality([tk \in S |-> tasks[tk]])

\* a step in which the dispatcher hands an item to processEventItem
DispatchStep == processingCount' = processingCount + 1

\* a step in which enforceRateLimit returns for some task
AdmitStep ==
    \/ (NumPhase("rlwait"))' < NumPhase("rlwait")
    \/ (NumPhase("admitted"))' > NumPhase("admitted")

\* a step in which the watchdog interval fires
WatchdogStep == watchdogAt' # watchdogAt

InLane(n) ==
    \/ \E i \in 1..Len(eventQueue) : eventQueue[i].seq = n
    \/ \E i \in 1..Len(priorityQueue) : priorityQueue[i].seq = n

\* a step in which enqueueEvent is called with eventId id
EnqueueStep(id) ==
    /\ ret'.op = "enqueue"
    /\ ret'.eventId = id
    /\ (ret' # ret \/ nextSeq' # nextSeq)

\* a step in which sendEventNotification returns after the pushes settled
SettleStep ==
    /\ processingCount' = processingCount - 1
    /\ ret'.op = "send"
    /\ ret'.success

Failed(r) == {u \in DOMAIN r.results : ~r.results[u]}

\* the event id was put in front of the history records, the others follow
\* in their order, the oldest dropped at capacity
AppendedOnce(id) ==
    /\ Len(history'.events) = Min(Len(history.events) + 1, maxHistorySize)
    /\ history'.events[1].eventId = id
    /\ \A i \in 2..Len(history'.events) : history'.events[i] = history.events[i - 1]

\* ------------------------------------------------------------------ claims

\* C1: when enqueueEvent is called with a non-empty eventId less than
\* eventDeduplicationTTL after a call with that eventId was accepted, the call
\* returns false and adds nothing to either lane (only the first is accepted).
C1_DedupWithinTTL ==
    [][\A id \in EventIds :
         EnqueueStep(id) /\ acceptedAt[id] # 0
            /\ now - acceptedAt[id] < eventDeduplicationTTL
         => /\ ret'.result = FALSE
            /\ eventQueue' = eventQueue
            /\ priorityQueue' = priorityQueue
            /\ acceptedAt' = acceptedAt]_vars

\* a repeated eventId was rejected some time after its acceptance
C1_Witness ==
    /\ ret = [op |-> "enqueue", eventId |-> "e1", result |-> FALSE]
    /\ acceptedAt["e1"] # 0
    /\ now > acceptedAt["e1"]
    /\ now - acceptedAt["e1"] < eventDeduplicationTTL

\* C2: in every reachable state 0 <= processingCount <= maxConcurrent,
\* for every interleaving of enqueues, task completions, the 1 s poll, the
\* module-load start and watchdog restarts.
C2_InFlightBounded == 0 <= processingCount /\ processingCount <= maxConcurrent

\* the limit is reached while an item waits and the dispatcher polls
C2_Witness ==
    /\ processingCount = maxConcurrent
    /\ hasEventsToProcess
    /\ sleepers # <<>>

\* C3 (as claimed): the time between two consecutive returns of
\* enforceRateLimit is at least minSendInterval, also for tasks that entered
\* enforceRateLimit while another task was waiting in it.
C3_AdmissionsSpaced ==
    [][AdmitStep /\ lastSendTime # 0 => now' - lastSendTime >= minSendInterval]_vars

\* C4: every accepted event is eventually dispatched, that is, removed from
\* its lane and handed to processEventItem, when timers fire, every task in
\* flight eventually settles and high-priority arrivals stop.
C4_AcceptedEventuallyDispatched ==
    /\ \A n \in 1..MaxEnqLive : InLane(n) ~> ~InLane(n)
    /\ [][\A n \in 1..MaxEnqLive : InLane(n) /\ ~(InLane(n))' => DispatchStep]_vars

\* every lane is empty again after more events than slots were accepted and
\* an activation slept in the poll because the slots were full
C4_Witness ==
    /\ ~hasEventsToProcess
    /\ nextSeq > maxConcurrent + 1
    /\ sleepers # <<>>

\* C5: at every dispatch, a non-empty priority lane yields its head; an item
\* of the normal lane is dispatched only when the priority lane is empty.
C5_PriorityFirst ==
    [][DispatchStep =>
         /\ priorityQueue # <<>> =>
              /\ priorityQueue' = Tail(priorityQueue)
              /\ eventQueue' = eventQueue
         /\ eventQueue' # eventQueue =>
              /\ priorityQueue = <<>>
              /\ eventQueue' = Tail(eventQueue)]_vars

\* a high-priority item enqueued after a waiting normal item has overtaken it
C5_Witness ==
    /\ eventQueue # <<>>
    /\ priorityQueue = <<>>
    /\ \E n \in (Head(eventQueue).seq + 1)..(nextSeq - 1) : ~InLane(n)

\* C6 (as claimed): when one push fails and another succeeds, every target
\* was attempted, the event is appended to history exactly once and the
\* results hold one failed entry per failed target.
C6_PartialFailureRecorded ==
    [][SettleStep /\ Failed(ret') # {} /\ ret'.successCount >= 1
         => /\ DOMAIN ret'.results = resolveTargets(roster)
            /\ Cardinality(Failed(ret')) + ret'.successCount
                 = Cardinality(resolveTargets(roster))
            /\ AppendedOnce(ret'.eventId)]_vars

\* C6 (amended): the same for an event that carries an eventId.
C6_PartialFailureRecordedWithId ==
    [][SettleStep /\ Failed(ret') # {} /\ ret'.successCount >= 1
          /\ ret'.eventId # NoId
         => /\ DOMAIN ret'.results = resolveTargets(roster)
            /\ Cardinality(Failed(ret')) + ret'.successCount
                 = Cardinality(resolveTargets(roster))
            /\ AppendedOnce(ret'.eventId)]_vars

\* an event with eventId was delivered to one target, failed for the other
\* and heads the history
C6_Witness ==
    /\ ret.op = "send"
    /\ ret.success
    /\ ret.eventId # NoId
    /\ Failed(ret) # {}
    /\ ret.successCount >= 1
    /\ history.events # <<>>
    /\ history.events[1].eventId = ret.eventId

\* C7 (as claimed): when every push fails the history is left unchanged and
\* the event's StoredEvent is returned by getEvent until eventTTL expires.
C7_AllFailedNotRecorded ==
    /\ [][SettleStep /\ ret'.successCount = 0
            => /\ history' = history
               /\ getEventFound(eventStorage', ret'.eventId, now')]_vars
    /\ [][\A id \in DOMAIN eventStorage :
            now' - eventStorage[id].storedAt <= eventTTL
            => id \in DOMAIN eventStorage']_vars

\* C7 (amended): the history is left unchanged; the StoredEvent of an event
\* that carries an eventId is returned by getEvent until eventTTL expires.
C7_AllFailedNotRecordedWithId ==
    /\ [][SettleStep /\ ret'.successCount = 0
            => /\ history' = history
               /\ (ret'.eventId # NoId
                    => getEventFound(eventStorage', ret'.eventId, now'))]_vars
    /\ [][\A id \in DOMAIN eventStorage :
            now' - eventStorage[id].storedAt <= eventTTL
            => id \in DOMAIN eventStorage']_vars

\* every push of an event with eventId failed: it is stored, not in history
C7_Witness ==
    /\ ret.op = "send"
    /\ ret.success
    /\ ret.successCount = 0
    /\ ret.results # <<>>
    /\ ret.eventId \in DOMAIN eventStorage
    /\ \A i \in 1..Len(history.events) : history.events[i].eventId # ret.eventId

\* a step in which processEvent of a webhook event returns
WebEventStep == ret'.op = "webEvent" /\ wtasks' # wtasks /\ ret' # ret

\* a step in which the store's operation op is called directly
CallStep(op) == calls' = calls + 1 /\ ret'.op = op

\* C8 (as claimed): on the webhook path, when the push of an event to one
\* recipient fails and the push to another succeeds, all pushes are awaited
\* and the event is still appended to history.
C8_WebhookPartialFailureRecorded ==
    [][WebEventStep /\ ret'.eventId # NoId
          /\ ret'.failed # {} /\ ret'.delivered # {}
         => /\ ret'.unsettled = {}
            /\ ret'.appended
            /\ history'.events # <<>>
            /\ history'.events[1].eventId = ret'.eventId]_vars

\* C10: the history never holds more than maxHistorySize records after any
\* sequence of appendEventToHistory, updateEventImage and
\* updateEventImageSources; the updates keep its length, and an append at
\* capacity drops exactly the last (oldest) record and keeps the others in
\* their order behind the new one.
C10_HistoryCapped ==
    /\ [](Len(history.events) <= maxHistorySize)
    /\ [][CallStep("updateImage") \/ CallStep("updateSources")
            => /\ Len(history'.events) = Len(history.events)
               /\ \A i \in 1..Len(history.events) :
                    /\ history'.events[i].eventId = history.events[i].eventId
                    /\ history'.events[i].storedAt = history.events[i].storedAt]_vars
    /\ [][CallStep("append") /\ ret'.eventId # NoId
            => /\ history'.events[1].eventId = ret'.eventId
               /\ Tail(history'.events)
                    = SubSeq(history.events, 1,
                             Min(Len(history.events), maxHistorySize - 1))]_vars

\* two appends to a history of maxHistorySize - 1 records: the second one
\* dropped the oldest record
C10_Witness ==
    /\ Len(history.events) = maxHistorySize
    /\ history.events[1].eventId \in EventIds
    /\ history.events[2].eventId \in EventIds
    /\ history.events[maxHistorySize].storedAt = BootTime - (maxHistorySize - 2)

\* C11: updateEventImage(eventId, url) on a history that holds a record with
\* that eventId sets the imageUrl of the matching record and changes nothing
\* else in the list: records with another eventId, the other fields of the
\* matching record, the order and the number of records stay as they were.
C11_UpdateImageFrame ==
    [][CallStep("updateImage") /\ ret'.imageUrl # NoImage
          /\ (\E i \in 1..Len(history.events) :
                 history.events[i].eventId = ret'.eventId)
         => /\ Len(history'.events) = Len(history.events)
            /\ \A i \in 1..Len(history.events) :
                 IF history.events[i].eventId = ret'.eventId
                 THEN history'.events[i]
                        = [history.events[i] EXCEPT !.imageUrl = ret'.imageUrl]
                 ELSE history'.events[i] = history.events[i]]_vars

\* an image was set on the record of an event while a record of another
\* event keeps its own
C11_Witness ==
    /\ ret.op = "updateImage"
    /\ ret.imageUrl # NoImage
    /\ \E i, j \in 1..Len(history.events) :
         /\ history.events[i].eventId = ret.eventId
         /\ history.events[i].imageUrl = ret.imageUrl
         /\ history.events[j].eventId # ret.eventId
         /\ history.events[j].imageUrl # ret.imageUrl

\* roster entries with role admin or target
Authorized(r) == {u \in DOMAIN r : r[u] = "admin" \/ r[u] = "target"}

\* a step in which a task enters sendEventNotification
SendStartStep ==
    \/ (NumPhase("admitted"))' < NumPhase("admitted")
    \/ (NumPhase("rlwait"))' < NumPhase("rlwait")

\* C12: when no roster entry has role admin or target, sendEventNotification
\* returns a result with success false and an error, no rendering or push is
\* started, and the history is left as it was (by the dispatch of the item
\* and by the send).
C12_NoTargetsReported ==
    /\ [][SendStartStep /\ Authorized(roster) = {}
            => /\ ret'.op = "send"
               /\ ret'.success = FALSE
               /\ ret'.error # ""
               /\ ret'.results = <<>>
               /\ processingCount' = processingCount - 1
               /\ (NumPhase("render"))' = NumPhase("render")
               /\ (NumPhase("pushing"))' = NumPhase("pushing")
               /\ history' = history]_vars
    /\ [][DispatchStep => history' = history]_vars

\* an event with eventId was stored and dispatched, found no target and was
\* not recorded
C12_Witness ==
    /\ ret.op = "send"
    /\ ret.success = FALSE
    /\ ret.eventId = "e1"
    /\ Authorized(roster) = {}
    /\ "e1" \in DOMAIN eventStorage
    /\ \A i \in 1..Len(history.events) : history.events[i].eventId # "e1"

\* C13: a duplicate call of isDuplicateEvent does not refresh the recorded
\* time: while less than eventDeduplicationTTL has passed since the id was
\* admitted every call is a duplicate and leaves the map as it is, and the
\* first call made eventDeduplicationTTL or more after the admission admits
\* the id again, whatever duplicates were seen in between.
C13_NoRefreshByDuplicates ==
    [][\A id \in EventIds :
         EnqueueStep(id) /\ acceptedAt[id] # 0
         => IF now - acceptedAt[id] < eventDeduplicationTTL
            THEN /\ ret'.result = FALSE
                 /\ processedEvents' = processedEvents
            ELSE /\ ret'.result = TRUE
                 /\ processedEvents'[id] = now
                 /\ acceptedAt'[id] = now]_vars

\* an id whose first delivery is recorded was admitted again once the window
\* had passed
C13_Witness ==
    /\ ret = [op |-> "enqueue", eventId |-> "e1", result |-> TRUE]
    /\ acceptedAt["e1"] = now
    /\ \E i \in 1..Len(history.events) :
         /\ history.events[i].eventId = "e1"
         /\ now - history.events[i].storedAt >= eventDeduplicationTTL

\* a step in which the processing of an item ends by an exception
FailStep ==
    /\ ret'.op = "itemFailed"
    /\ (NumPhase("render"))' < NumPhase("render")
    /\ (NumPhase("pushing"))' = NumPhase("pushing")

\* C14: an exception while processing a queued item is caught at the item:
\* its slot is released exactly once (processingCount stays the number of
\* items in flight), the lanes, the dispatcher and the other items in flight
\* are left as they are, the queued items are still dispatched and the items
\* in flight still complete.
C14_ItemFailureContained ==
    /\ [](processingCount = BagCardinality(tasks))
    /\ [][FailStep
            => /\ processingCount' = processingCount - 1
               /\ tasks' \sqsubseteq tasks
               /\ BagCardinality(tasks') = BagCardinality(tasks) - 1
               /\ eventQueue' = eventQueue
               /\ priorityQueue' = priorityQueue
               /\ isProcessing' = isProcessing
               /\ running' = running
               /\ sleepers' = sleepers
               /\ history' = history]_vars
    /\ \A n \in 1..MaxEnqFault : InLane(n) ~> ~InLane(n)
    /\ []<>(processingCount = 0)

\* an item failed while the slots were full and another item waited in a
\* lane; the waiting item has been dispatched since
C14_Witness ==
    /\ ret.op = "itemFailed"
    /\ nextSeq > maxConcurrent + 1
    /\ ~hasEventsToProcess
    /\ processingCount = maxConcurrent

\* a step in which the pushes of a task have all settled
PushEndStep == (NumPhase("pushing"))' < NumPhase("pushing")

\* C15: the fan-out of sendEventNotification does not reject because pushes
\* fail: whichever targets fail, all of them included, the call returns a
\* report with exactly one outcome for every target of the event.
C15_FanOutAlwaysReports ==
    [][PushEndStep
         => /\ ret'.op = "send"
            /\ ret'.success = TRUE
            /\ \E tk \in BagToSet(tasks) :
                 /\ tk.phase = "pushing"
                 /\ tk.eventId = ret'.eventId
                 /\ tasks' = tasks (-) SetToBag({tk})
                 /\ DOMAIN ret'.results = tk.targets
                 /\ ret'.successCount + Cardinality(Failed(ret'))
                      = Cardinality(tk.targets)]_vars

\* the report of a fan-out in which the push to every target failed
C15_Witness ==
    /\ ret.op = "send"
    /\ ret.success = TRUE
    /\ DOMAIN ret.results = {"A", "B"}
    /\ Failed(ret) = {"A", "B"}

\* a step in which handleEventReceiver answers a request
RequestStep == nextReq' = nextReq + 1

\* C16: a request that handleEventReceiver answers with 400 or 401 has no
\* further effect: no dedup record is added, none of its events is rendered
\* or pushed, and the history is as it was.
C16_RejectedRequestInert ==
    [][RequestStep /\ ret'.status \in {400, 401}
         => /\ ctlProcessed' = ctlProcessed
            /\ wreqs' = wreqs
            /\ wtasks' = wtasks
            /\ lastPushTime' = lastPushTime
            /\ eventStorage' = eventStorage
            /\ history' = history]_vars

\* a request was answered 401 while the events of an accepted request are
\* being processed
C16_Witness ==
    /\ ret.op = "http"
    /\ ret.status = 401
    /\ nextReq = 3
    /\ wtasks # EmptyBag

\* C17 (as claimed): every request whose token is missing or differs from
\* the configured event token is answered 401 and none of its events is
\* deduplicated, rendered or pushed.
C17_TokenRequired ==
    [][\A body \in {"object", "missing"}, token \in Tokens,
          method \in {"OnEventNotify", "other"}, events \in EventLists :
         handleEventReceiver(body, token, method, events) /\ token # eventToken
         => /\ ret'.status = 401
            /\ ctlProcessed' = ctlProcessed
            /\ wreqs' = wreqs
            /\ wtasks' = wtasks]_vars

\* C17 (amended): when the configured event token is not the placeholder,
\* every request whose token is missing or differs from it is rejected, with
\* 401 or, when its body is not an object, with 400, and none of its events
\* is deduplicated, rendered or pushed; when the token is left at the
\* placeholder a well-formed request is answered 200 whatever its token.
C17_TokenRequiredWhenConfigured ==
    [][\A body \in {"object", "missing"}, token \in Tokens,
          method \in {"OnEventNotify", "other"}, events \in EventLists :
         handleEventReceiver(body, token, method, events) /\ token # eventToken
         => IF eventToken # DefaultToken
            THEN /\ ret'.status = IF body = "object" THEN 401 ELSE 400
                 /\ ctlProcessed' = ctlProcessed
                 /\ wreqs' = wreqs
                 /\ wtasks' = wtasks
                 /\ history' = history
            ELSE body = "object" /\ method = "OnEventNotify"
                   => ret'.status = 200]_vars

\* with a configured token the first request was answered 401 and left no
\* trace
C17_Witness ==
    /\ eventToken = "secret"
    /\ ret = [op |-> "http", status |-> 401, error |-> "Unauthorized"]
    /\ nextReq = 2
    /\ ctlProcessed = <<>>
    /\ wreqs = <<>>

\* the response of line 185
Accepted == [op |-> "http", status |-> 200, error |-> ""]

\* C18: for a well-formed, authorized OnEventNotify request the 200 response
\* is sent before any render has finished, any push has been issued and any
\* history write has been made for its events; it is the same for every
\* event list, roster and dedup state, and no later processing step (render,
\* rate-limit wait, push outcome) sends another response.
C18_ResponseBeforeProcessing ==
    [][/\ \A token \in Tokens, events \in EventLists :
            /\ handleEventReceiver("object", token, "OnEventNotify", events)
            /\ (eventToken = DefaultToken \/ token = eventToken)
            => /\ ret' = Accepted
               /\ history' = history
               /\ eventStorage' = eventStorage
               /\ lastPushTime' = lastPushTime
               /\ \A tk \in BagToSet(wtasks') :
                     tk.req = nextReq
                       => tk.phase = "render" /\ tk.pending = {} /\ tk.delivered = {}
       /\ ~RequestStep /\ ret' # ret => ret'.op # "http"]_vars

\* the first request has been answered 200 while its events are still being
\* rendered: nothing is pushed or written yet
C18_Witness ==
    /\ ret = Accepted
    /\ nextReq = 2
    /\ wtasks # EmptyBag
    /\ \A tk \in BagToSet(wtasks) : tk.req = 1 /\ tk.phase = "render"
    /\ history = EmptyHistory

\* the tasks that bag c holds more often than bag b
Started(b, c) == {tk \in BagToSet(c) : CopiesIn(tk, c) > CopiesIn(tk, b)}

LaneItems ==
    {eventQueue[i] : i \in 1..Len(eventQueue)}
      \cup {priorityQueue[i] : i \in 1..Len(priorityQueue)}

\* C20 (as claimed): calculateEventPriority returns "high" when the type's
\* configuration declares priority "high" and "normal" in every other case,
\* so the priority that enqueueHCPEvent queues an item with is always "high"
\* or "normal".
C20_PriorityHighOrNormal ==
    \A item \in LaneItems : item.priority \in {"high", "normal"}

\* the items of lane q stand in the order in which they were accepted
InOrder(q) == \A i, j \in 1..Len(q) : i < j => q[i].seq < q[j].seq

\* whether lane q loses exactly its oldest item and keeps the others in place
TakesOldest(q, r) ==
    /\ q # <<>>
    /\ r = Tail(q)
    /\ \A i \in 1..Len(r) : Head(q).seq < r[i].seq

\* C21: within each lane items are dispatched in the order they were
\* enqueued: a lane holds its items oldest first, an item leaves a lane only
\* by a dispatch, and every dispatch takes the oldest item of its lane, also
\* when a watchdog restart runs beside an activation that sleeps in the poll.
C21_LaneFifo ==
    /\ [](InOrder(eventQueue) /\ InOrder(priorityQueue))
    /\ [][/\ DispatchStep
               => \/ TakesOldest(eventQueue, eventQueue')
                        /\ priorityQueue' = priorityQueue
                  \/ TakesOldest(priorityQueue, priorityQueue')
                        /\ eventQueue' = eventQueue
          /\ ~DispatchStep
               => /\ Len(eventQueue') >= Len(eventQueue)
                  /\ Len(priorityQueue') >= Len(priorityQueue)
                  /\ SubSeq(eventQueue', 1, Len(eventQueue)) = eventQueue
                  /\ SubSeq(priorityQueue', 1, Len(priorityQueue)) = priorityQueue]_vars

\* beside an activation that sleeps in its poll, a later activation has
\* dispatched the older of two waiting items and the younger still waits
C21_Witness ==
    /\ running
    /\ sleepers # <<>>
    /\ processingCount > 0
    /\ processingCount < maxConcurrent
    /\ eventQueue # <<>>
    /\ Head(eventQueue).seq = nextSeq - 1
    /\ ~InLane(nextSeq - 2)

\* event ids of a list of records
Ids(list) == [i \in 1..Len(list) |-> list[i].eventId]

\* C22: appending to a history of n < maxHistorySize records makes
\* getEventHistory({page: 1, pageSize: n + 1}) return the appended event
\* followed by what getEventHistory({page: 1, pageSize: n}) returned before,
\* with total n + 1; so after appending e1..eN to an empty history the first
\* page of size N is [eN, ..., e1] and total is N.
C22_HistoryRoundTrip ==
    /\ [][CallStep("append") /\ Len(history.events) < maxHistorySize
            => LET n == Len(history.events)
                   before == getEventHistory(history, 1, n, "ok")
                   after == getEventHistory(history', 1, n + 1, "ok")
               IN /\ after.total = n + 1
                  /\ Len(after.list) = n + 1
                  /\ after.list[1].eventId = ret'.eventId
                  /\ Tail(after.list) = before.list
                  /\ before.total = n]_vars
    /\ [][CallStep("getHistory") /\ ret'.file = "ok" /\ ret'.page = 1
              /\ ret'.pageSize = Len(history.events) /\ calls = ret'.pageSize
            => /\ ret'.result.total = calls
               /\ ret'.result.list = history.events
               /\ history' = history]_vars

\* e1 and then e2 were appended to the empty history and the first page of
\* size 2 was read: [e2, e1], total 2
C22_Witness ==
    /\ ret.op = "getHistory"
    /\ ret.file = "ok"
    /\ ret.page = 1
    /\ ret.pageSize = 2
    /\ ret.result.total = 2
    /\ Ids(ret.result.list) = <<"e2", "e1">>

\* the records of list with eventId id
RecordsOf(list, id) == {i \in 1..Len(list) : list[i].eventId = id}

\* C23: updateEventImage(eventId, url) sets the imageUrl of the history
\* records of eventId whether or not the in-memory store holds the event
\* (when it does not, the store is left alone), and it is idempotent: when
\* the records already carry url the records stay as they are, and applying
\* the call once more to its own result changes no record.
C23_UpdateImageDurableIdempotent ==
    [][CallStep("updateImage") /\ ret'.imageUrl # NoImage
         => LET id == ret'.eventId
                url == ret'.imageUrl
            IN /\ \A i \in RecordsOf(history.events, id) :
                     history'.events[i].imageUrl = url
               /\ id \notin DOMAIN eventStorage => eventStorage' = eventStorage
               /\ (\A i \in RecordsOf(history.events, id) :
                      history.events[i].imageUrl = url)
                    => history'.events = history.events
               /\ updateEventImageHistory(history', id, url, now', TRUE).events
                    = history'.events]_vars

\* the third call set again the image of an event that the history holds and
\* the in-memory store does not
C23_Witness ==
    /\ ret.op = "updateImage"
    /\ ret.call = MaxCalls
    /\ ret.imageUrl # NoImage
    /\ ret.eventId \notin DOMAIN eventStorage
    /\ Len(history.events) = 1
    /\ history.events[1].eventId = ret.eventId
    /\ history.events[1].imageUrl = ret.imageUrl

\* whether the image resolution of the render call r failed
ImageFailed(r) == ~r.hasUri \/ r.fetch # "data" \/ r.store # "stored"

\* C24: createEventFlexMessage returns a message also when image resolution
\* fails (no image URI, the fetch answers an error or nothing or throws, the
\* image cannot be stored): the message then has no image component and no
\* resend footer, the call does not throw, and nothing is registered for the
\* event.
C24_RenderSurvivesImageFailure ==
    [][CallStep("render") /\ ImageFailed(ret')
         => /\ ~ret'.threw
            /\ ret'.message.type = "flex"
            /\ ret'.message.image = NoImage
            /\ ~ret'.message.footer
            /\ eventStorage' = eventStorage
            /\ history' = history]_vars

\* a stored event was rendered while the image fetch threw: a message
\* without image
C24_Witness ==
    /\ ret.op = "render"
    /\ ret.hasUri
    /\ ret.fetch = "throws"
    /\ ~ret.threw
    /\ ret.message.image = NoImage
    /\ ret.eventId \in DOMAIN eventStorage

\* C25 (as claimed): rendering an event whose image was already resolved
\* returns the stored image URL of the event and does not call the image
\* collaborator again.
C25_ImageResolvedOnce ==
    [][CallStep("render") /\ ret'.hasUri /\ ret'.eventId \in DOMAIN eventStorage
          /\ eventStorage[ret'.eventId].imageUrl # NoImage
         => /\ ret'.message.image = eventStorage[ret'.eventId].imageUrl
            /\ ~ret'.fetched]_vars

\* C26: when the history file is missing, empty, not valid JSON or without
\* events array, getEventHistory, getEventFromHistory and getEventImageUri
\* return (they do not throw) the answer they give on an empty history: an
\* empty list with total 0, or null; and they leave the history as it is.
C26_ReadsTolerateBadFile ==
    [][/\ CallStep("getHistory") /\ ret'.file # "ok"
            => /\ ret'.result.list = <<>>
               /\ ret'.result.total = 0
               /\ ret'.result.list
                    = getEventHistory(EmptyHistory, ret'.page, ret'.pageSize, "ok").list
       /\ CallStep("getFromHistory") /\ ret'.file # "ok"
            => ret'.result = <<>>
       /\ CallStep("getImageUri") /\ ret'.file # "ok"
            => ret'.result = NoImage
       /\ CallStep("getHistory") \/ CallStep("getFromHistory")
             \/ CallStep("getImageUri")
            => history' = history]_vars

\* a history with a record is asked for its first page while the file is
\* not valid JSON: the answer is the empty list
C26_Witness ==
    /\ ret.op = "getHistory"
    /\ ret.file = "invalid"
    /\ ret.result.total = 0
    /\ Len(history.events) = 1
    /\ "picUri" \in DOMAIN history.events[1].imageSources

\* a step in which a postback event is handled
PostbackStep == ret'.op = "postback" /\ (ret' # ret \/ roster' # roster)

\* C27 (as claimed): a user-management postback sent by a sender whose role
\* is not admin (target, pending, blocked or without entry) shows no panel
\* and changes no role.
C27_AdminOnlyManagement ==
    [][PostbackStep /\ ret'.senderRole # "admin"
         => /\ roster' = roster
            /\ ret'.action = "permission_denied"]_vars

\* startProcessing activations that have entered the loop and not left it:
\* the one executing and those suspended in the poll
ActiveLoops == (IF running THEN 1 ELSE 0) + Len(sleepers)

\* C28 (as claimed): at any instant at most one startProcessing activation
\* is inside its loop, whether activations are triggered by enqueueEvent, by
\* the module-load start or by a watchdog tick during the 1 s poll.
C28_SingleDispatcher == ActiveLoops <= 1

\* the item with serial number n is the only one waiting and was the last
\* one accepted, and an activation is executing
SoleItem(n) ==
    /\ InLane(n)
    /\ nextSeq = n + 1
    /\ Len(eventQueue) + Len(priorityQueue) = 1
    /\ running

\* C29: whenever isProcessing is false and no activation is executing, both
\* lanes are empty; an event that enqueueEvent accepts while isProcessing is
\* false finds the lanes empty, starts an activation in the same call, and
\* is eventually dispatched.
C29_IdleMeansEmpty ==
    /\ [](~isProcessing /\ ~running => ~hasEventsToProcess)
    /\ [][\A n \in 1..MaxEnqLive :
               nextSeq = n /\ nextSeq' = n + 1 /\ ~isProcessing
               => /\ ~hasEventsToProcess
                  /\ isProcessing'
                  /\ SoleItem(n)']_vars
    /\ \A n \in 1..MaxEnqLive : SoleItem(n) ~> ~InLane(n)

\* the dispatcher had gone idle after its first item and a second accepted
\* event has started a new activation
C29_Witness ==
    /\ SoleItem(2)
    /\ isProcessing
    /\ sleepers = <<>>
    /\ tasks = EmptyBag
    /\ processingCount = 0

\* the serial numbers waiting in the two lanes, in lane order
LaneSeqs == [i \in 1..(Len(priorityQueue) + Len(eventQueue)) |->
                IF i <= Len(priorityQueue) THEN priorityQueue[i].seq
                ELSE eventQueue[i - Len(priorityQueue)].seq]

\* number of items being processed
InFlight == BagCardinality(tasks)

\* C30: an accepted item is handed to processEventItem at most once and is
\* attempted at most once: no serial number waits twice; a step that starts
\* a task takes exactly one item out of the lanes; an item that has left
\* the lanes never returns to them, also when a watchdog restart overlaps a
\* sleeping activation; and a failed item leaves the lanes as they are and
\* its task is not replaced.
C30_DispatchedOnce ==
    /\ [](\A i, j \in DOMAIN LaneSeqs : LaneSeqs[i] = LaneSeqs[j] => i = j)
    /\ [][InFlight' > InFlight
            => /\ InFlight' = InFlight + 1
               /\ Len(LaneSeqs') = Len(LaneSeqs) - 1]_vars
    /\ [][\A n \in 1..MaxEnq :
               n < nextSeq /\ ~InLane(n) => ~InLane(n)']_vars
    /\ [][ret'.op = "itemFailed" /\ ret' # ret
            => /\ LaneSeqs' = LaneSeqs
               /\ InFlight' = InFlight - 1
               /\ processingCount' = processingCount - 1]_vars

\* an item has failed while two activations are inside the loop and items
\* still wait
C30_Witness ==
    /\ ret.op = "itemFailed"
    /\ ActiveLoops = 2
    /\ hasEventsToProcess

\* the event id waits in a lane
Waiting(id) ==
    \/ \E i \in 1..Len(eventQueue) : eventQueue[i].eventId = id
    \/ \E i \in 1..Len(priorityQueue) : priorityQueue[i].eventId = id

\* a task of the event id is in one of the phases phs
InPhase(id, phs) == \E tk \in BagToSet(tasks) : tk.eventId = id /\ tk.phase \in phs

\* the pushes of the event id have not been issued yet
BeforePushes(id) == Waiting(id) \/ InPhase(id, {"rlwait", "admitted", "render"})

\* a step in which pushMessage is called for the targets of the event id
PushIssueStep(id) == ~InPhase(id, {"pushing"}) /\ InPhase(id, {"pushing"})'

\* C31 (as claimed): when two events of the same priority class were accepted
\* one after the other, the pushes of the later one are never issued while
\* the pushes of the earlier one are still to come, also when both are in
\* flight together.
C31_DeliveryInAcceptanceOrder ==
    [][\A a, b \in EventIds :
         /\ acceptedAt[a] # 0
         /\ acceptedAt[a] < acceptedAt[b]
         /\ PushIssueStep(b)
         => ~BeforePushes(a)]_vars

\* C32 (as claimed): every occupied concurrency slot is eventually released,
\* also when an image fetch or a push never responds: whatever the number of
\* items in flight, it eventually drops below that number, so
\* processingCount does not stay at maxConcurrent.
C32_SlotsEventuallyReleased ==
    \A k \in 1..maxConcurrent : (processingCount = k) ~> (processingCount < k)

Phases == {"rlwait", "admitted", "render", "pushing"}

PendingCount(id) ==
    Cardinality({i \in 1..Len(eventQueue) : eventQueue[i].eventId = id})
    + Cardinality({i \in 1..Len(priorityQueue) : priorityQueue[i].eventId = id})
    + BagCardinality([tk \in {x \in BagToSet(tasks) : x.eventId = id} |-> tasks[tk]])

\* C34 (as claimed): at no instant are two items with the same eventId
\* pending (waiting in a lane or in flight).
C34_OnePendingPerId == \A id \in EventIds : PendingCount(id) <= 1

\* C34 (amended): an eventId is accepted while an item with that eventId is
\* still pending only when eventDeduplicationTTL or more has passed since
\* its last acceptance, so the number of pending items with one eventId
\* never exceeds one per started eventDeduplicationTTL of running time.
C34_OnePendingPerWindow ==
    /\ [][\A id \in EventIds :
            EnqueueStep(id) /\ ret'.result /\ PendingCount(id) > 0
            => now - acceptedAt[id] >= eventDeduplicationTTL]_vars
    /\ [](\A id \in EventIds :
            PendingCount(id) <= 1 + ((now - BootTime) \div eventDeduplicationTTL))

\* the event e1 was accepted again while its first item was still in flight
C34_Witness ==
    /\ PendingCount("e1") = 2
    /\ ret = [op |-> "enqueue", eventId |-> "e1", result |-> TRUE]

\* the responses the handler sent or tried to send for the last request
Responses(r) ==
    IF "attempted" \in DOMAIN r THEN <<r.status, r.attempted>> ELSE <<r.status>>

\* C35 (as claimed): handleEventReceiver sends exactly one response for a
\* request and tries no second one after the 200, whatever params.events
\* holds.
C35_ExactlyOneResponse ==
    ret.op = "http" => Len(Responses(ret)) = 1

\* C36 (as claimed): an append of an event with an eventId keeps every
\* record the history held before, in order behind the new one, up to the
\* maxHistorySize newest, also when the read of the history file fails.
C36_AppendKeepsRecords ==
    [][ret'.op = "append" /\ calls' = calls + 1 /\ ret'.eventId # NoId
        => \A i \in 1..Min(Len(history.events), maxHistorySize - 1) :
              /\ Len(history'.events) > i
              /\ history'.events[i + 1] = history.events[i]]_vars

\* the history records of the event id all carry the image url
ImageRecorded(doc, id, url) ==
    \A i \in 1..Len(doc.events) :
        doc.events[i].eventId = id => doc.events[i].imageUrl = url

\* the history differs in the image of records of the event id and in
\* nothing else
OthersKept(id) ==
    /\ Len(history'.events) = Len(history.events)
    /\ \A i \in 1..Len(history.events) :
          IF history.events[i].eventId = id
          THEN [history'.events[i] EXCEPT !.imageUrl = NoImage]
                  = [history.events[i] EXCEPT !.imageUrl = NoImage]
          ELSE history'.events[i] = history.events[i]

\* C37: the history operations of events in flight together lose no update.
\* Every step that changes the history is one whole operation applied to the
\* history as the step found it: an append puts the new record, with the
\* image registered for the event, in front of all the records there were;
\* an image update changes the records of its event and no other.  A
\* rendering that registers an image leaves it in the store and in every
\* history record of the event, and every history record carries the image
\* registered for its event.
C37_NoLostUpdate ==
    /\ [][history' # history
            => \/ \E id \in EventIds :
                     /\ AppendedOnce(id)
                     /\ Len(history'.events) = Len(history.events) + 1
                     /\ id \in DOMAIN eventStorage
                     /\ history'.events[1].imageUrl = eventStorage[id].imageUrl
               \/ \E id \in EventIds : OthersKept(id)]_vars
    /\ [][\A tk \in BagToSet(tasks) :
            RenderDone(tk, "u1") /\ tk.eventId # NoId
            => /\ eventStorage'[tk.eventId].imageUrl = "u1"
               /\ ImageRecorded(history', tk.eventId, "u1")]_vars
    /\ [](\A i \in 1..Len(history.events) :
            LET id == history.events[i].eventId
            IN id \in DOMAIN eventStorage
               /\ history.events[i].imageUrl = eventStorage[id].imageUrl)

\* both events are recorded, the one accepted first last, with its image:
\* they were in flight together
C37_Witness ==
    /\ Len(history.events) = 2
    /\ history.events[1].eventId = "e1"
    /\ history.events[1].imageUrl = "u1"
    /\ history.events[2].eventId = "e2"
    /\ acceptedAt["e1"] < acceptedAt["e2"]

\* C38 (as claimed): every event of which at least one push succeeded is
\* recorded in history when sendEventNotification returns, events without
\* eventId included.
C38_DeliveredIsRecorded ==
    [][SettleStep /\ ret'.successCount >= 1
         => /\ history'.events # <<>>
            /\ history'.events[1].eventId = ret'.eventId]_vars

\* C38 (amended): an event with an eventId of which at least one push
\* succeeded is recorded in history when sendEventNotification returns; an
\* event without eventId is delivered like any other and leaves the history
\* as it was.
C38_DeliveredWithIdIsRecorded ==
    [][SettleStep /\ ret'.successCount >= 1
         => IF ret'.eventId # NoId
            THEN /\ history'.events # <<>>
                 /\ history'.events[1].eventId = ret'.eventId
                 /\ Len(history'.events) = Len(history.events) + 1
            ELSE history' = history]_vars

\* an event without eventId was accepted twice within the dedup window and
\* delivered, and an event with eventId was delivered and is recorded
C38_Witness ==
    /\ ret.op = "send"
    /\ ret.eventId = NoId
    /\ ret.successCount >= 1
    /\ nextSeq > 3
    /\ Len(history.events) = 1
    /\ history.events[1].eventId = "e1"

\* C39 (as claimed): the history never holds two records with the same
\* eventId.
C39_HistoryIdsUnique ==
    \A i, j \in 1..Len(history.events) :
        history.events[i].eventId = history.events[j].eventId => i = j

\* times at or after t at which isDuplicateEvent may be called next
LaterTimes(t) ==
    {t, t + WatchdogInterval, t + eventDeduplicationTTL - 1, t + eventDeduplicationTTL}

\* what isDuplicateEvent answers for the id at time t and the entry it leaves
DedupAnswer(pe, id, t) ==
    [duplicate |-> isDuplicateEvent(pe, id, t), entry |-> recordEvent(pe, id, t)[id]]

\* C40: the dedup sweep is transparent.  A step removes an entry of
\* processedEvents only when the entry is older than eventDeduplicationTTL,
\* and changes an entry only by accepting its id; and in every reachable state
\* a sweep run at that moment changes no answer of isDuplicateEvent, now or
\* later, nor the entry the call leaves behind.
C40_SweepTransparent ==
    /\ [][\A id \in DOMAIN processedEvents :
            IF id \in DOMAIN processedEvents'
            THEN processedEvents'[id] = processedEvents[id]
                 \/ (EnqueueStep(id) /\ ret'.result /\ processedEvents'[id] = now)
            ELSE now - processedEvents[id] > eventDeduplicationTTL]_vars
    /\ [](\A id \in EventIds, t \in LaterTimes(now) :
            DedupAnswer(cleanupProcessedEvents(processedEvents, now), id, t)
              = DedupAnswer(processedEvents, id, t))

\* a sweep has removed the entry of the event e1, accepted more than
\* eventDeduplicationTTL before
C40_Witness ==
    /\ acceptedAt["e1"] # 0
    /\ "e1" \notin DOMAIN processedEvents
    /\ now - acceptedAt["e1"] > eventDeduplicationTTL

\* C9: when a lane is non-empty and isProcessing is false, or true with
\* processingCount = 0, the watchdog tick starts a dispatcher activation; the
\* next tick is never more than one watchdog period away.
C9_WatchdogRecovers ==
    /\ [](now <= watchdogAt /\ watchdogAt - now <= WatchdogInterval)
    /\ [][WatchdogStep /\ hasEventsToProcess
            /\ (~isProcessing \/ processingCount = 0)
          => isProcessing' /\ running']_vars

\* the watchdog has started an activation while the lanes hold an item, no
\* task is in flight and the earlier activation still sleeps in its poll
C9_Witness ==
    /\ running
    /\ hasEventsToProcess
    /\ processingCount = 0
    /\ sleepers # <<>>
    /\ watchdogAt = now + WatchdogInterval

====
